---------------------------- MODULE Spec2Model ----------------------------
(***************************************************************************)
(* Model of kovi-plugin-oai (src/src/lib.rs): the symbolic command parser, *)
(* the persona registry with its histories and generation_id counters, the *)
(* GeneratingState tracker and the command handlers of logic::execute,     *)
(* logic::chat and logic::handle_create.                                   *)
(*                                                                         *)
(* Text is a sequence of characters; a character is a one-letter string    *)
(* for ASCII and a name such as "FW_TILDE" for a multi-byte code point.    *)
(* Every handler is a process whose steps are the sections it runs under   *)
(* one lock acquisition; handlers interleave between those sections.       *)
(***************************************************************************)
EXTENDS Integers, Sequences, FiniteSets, TLC

VARIABLES
    agents,      \* Config.agents : Vec<Agent>
    api_ok,      \* Config.api_base and Config.api_key are both non-empty
    models,      \* Config.models : Vec<String>
    generating,  \* GeneratingState {public, private}
    pc,          \* per handler: the section it runs next ("idle" = no message)
    cmd,         \* per handler: the parsed Command (plus the sender's uid)
    loc,         \* per handler: locals of chat::inner (hist, gen_id, res)
    issued,      \* number of messages handled so far
    raw,         \* parser: the message text under parse
    rawAscii,    \* parser: the same text with ASCII structural symbols
    pnames,      \* parser: the registered names handed to the parser
    parsed,      \* parser: the results of the parse entry points
    ppc,         \* parser: "input" before the parse, then the entry point run
    uin,         \* utilities: the arguments of the function under application
    uout,        \* utilities: what the function returned
    locks        \* lock guards: who holds Manager.config and Manager.generating

dvars == <<agents, api_ok, models, generating, pc, cmd, loc, issued>>
pvars == <<raw, rawAscii, pnames, parsed, ppc, uin, uout, locks>>
vars == <<agents, api_ok, models, generating, pc, cmd, loc, issued,
          raw, rawAscii, pnames, parsed, ppc, uin, uout, locks>>

(***************************************************************************)
(* Bounds of the model.                                                    *)
(***************************************************************************)
MaxCmds == 3        \* messages handled in one behaviour
MaxHandlers == 2    \* message handlers running concurrently

Handlers == 1..MaxHandlers
Users == {"u1", "u2"}


(***************************************************************************)
(* Characters and text.                                                    *)
(***************************************************************************)
\* The full-width code points utils::normalize maps, each with its ASCII image.
FullWidth ==
    [FW_BANG |-> "!", FW_AT |-> "@", FW_HASH |-> "#", FW_DOLLAR |-> "$",
     FW_PERCENT |-> "%", FW_STAR |-> "*", FW_LPAREN |-> "(", FW_RPAREN |-> ")",
     FW_MINUS |-> "-", FW_COLON |-> ":", FW_LDQUOTE |-> "\"", FW_RDQUOTE |-> "\"",
     FW_LSQUOTE |-> "'", FW_RSQUOTE |-> "'", FW_COMMA |-> ",", FW_TILDE |-> "~",
     FW_UNDER |-> "_", FW_AMP |-> "&", FW_SLASH |-> "/", FW_EQ |-> "=",
     FW_PLUS |-> "+", FW_SEMI |-> ";", FW_DOT |-> ".", FW_QUESTION |-> "?"]

\* char -> char of utils::normalize
normalize_char(c) == IF c \in DOMAIN FullWidth THEN FullWidth[c] ELSE c

\* utils::normalize: s.chars().map(..).collect()
normalize(s) == [i \in 1..Len(s) |-> normalize_char(s[i])]

\* char::len_utf8: one byte for ASCII, three for the full-width forms, the
\* curly quotes and a CJK letter ("ZH")
len_utf8(c) == IF c \in DOMAIN FullWidth \/ c = "ZH" THEN 3 ELSE 1

\* char::is_whitespace
is_whitespace(c) == c = " "

\* char::to_lowercase on the letters of the model's alphabet
to_lowercase_char(c) == IF c = "B" THEN "b" ELSE IF c = "X" THEN "x" ELSE c

\* str::to_lowercase
to_lowercase(s) == [i \in 1..Len(s) |-> to_lowercase_char(s[i])]

\* u8::eq_ignore_ascii_case lifted to str::eq_ignore_ascii_case
eq_ignore_ascii_case(a, b) == to_lowercase(a) = to_lowercase(b)

\* str::len: the length in bytes
RECURSIVE byte_len(_)
byte_len(s) == IF s = <<>> THEN 0 ELSE len_utf8(Head(s)) + byte_len(Tail(s))

\* the characters from position i (1-based) on
DropChars(s, k) == SubSeq(s, k + 1, Len(s))
TakeChars(s, k) == SubSeq(s, 1, IF k < Len(s) THEN k ELSE Len(s))

\* str::starts_with
starts_with(s, p) == Len(p) <= Len(s) /\ SubSeq(s, 1, Len(p)) = p

\* str::trim_start, str::trim_end, str::trim
RECURSIVE trim_start(_)
trim_start(s) ==
    IF s # <<>> /\ is_whitespace(Head(s)) THEN trim_start(Tail(s)) ELSE s
RECURSIVE trim_end(_)
trim_end(s) ==
    IF s # <<>> /\ is_whitespace(s[Len(s)])
    THEN trim_end(SubSeq(s, 1, Len(s) - 1)) ELSE s
trim(s) == trim_end(trim_start(s))

\* Option<&str>
NoStr == [some |-> FALSE, str |-> <<>>]
SomeStr(s) == [some |-> TRUE, str |-> s]

\* str::get(n..): the text from byte offset n, None when n is beyond the end
\* or inside a multi-byte character
RECURSIVE str_get_from(_, _)
str_get_from(s, n) ==
    IF n = 0 THEN SomeStr(s)
    ELSE IF s = <<>> \/ len_utf8(Head(s)) > n THEN NoStr
    ELSE str_get_from(Tail(s), n - len_utf8(Head(s)))

\* str::get(a..b) for the prefix and middle slices the parser takes
RECURSIVE str_get_to(_, _)
str_get_to(s, n) ==
    IF n = 0 THEN SomeStr(<<>>)
    ELSE IF s = <<>> \/ len_utf8(Head(s)) > n THEN NoStr
    ELSE LET r == str_get_to(Tail(s), n - len_utf8(Head(s)))
         IN  IF r.some THEN SomeStr(<<Head(s)>> \o r.str) ELSE NoStr

\* .unwrap_or("")
unwrap_or_empty(o) == IF o.some THEN o.str ELSE <<>>

\* str::find(char predicate given as a set): byte offset of the first match
RECURSIVE find_char(_, _)
find_char(s, set) ==
    IF s = <<>> THEN -1
    ELSE IF Head(s) \in set THEN 0
    ELSE LET r == find_char(Tail(s), set)
         IN  IF r < 0 THEN -1 ELSE len_utf8(Head(s)) + r


(***************************************************************************)
(* types: ChatMessage, Agent, GeneratingState.                             *)
(***************************************************************************)
\* ChatMessage::new (the timestamp is not modelled; the handlers pass no
\* images)
ChatMessage(role, content) ==
    [role |-> role, content |-> content, images |-> <<>>]

\* Agent::new
AgentNew(name, model, prompt, desc) ==
    [name |-> name, description |-> desc, model |-> model,
     system_prompt |-> prompt, public_history |-> <<>>,
     private_histories |-> <<>>, generation_id |-> 0]

\* Agent::history
history(a, private, uid) ==
    IF private
    THEN IF uid \in DOMAIN a.private_histories
         THEN a.private_histories[uid] ELSE <<>>
    ELSE a.public_history

\* a variant of the assignment through Agent::history_mut whose private
\* branch assigns the vector to every user that has a private history
history_set_every_user(a, private, uid, h) ==
    IF private
    THEN [a EXCEPT !.private_histories =
                       [u \in DOMAIN @ \cup {uid} |-> h]]
    ELSE [a EXCEPT !.public_history = h]

\* Agent::history_mut followed by an assignment of the whole vector: the
\* private entry is created when it is absent (entry().or_default())
history_set(a, private, uid, h) ==
    IF private
    THEN [a EXCEPT !.private_histories = (uid :> h) @@ @]
    ELSE [a EXCEPT !.public_history = h]

\* a variant of Agent::clear_history whose private branch empties the
\* private history of every user
clear_history_every_user(a, private, uid) ==
    IF private
    THEN [a EXCEPT !.private_histories = [u \in DOMAIN @ |-> <<>>]]
    ELSE [a EXCEPT !.public_history = <<>>]

\* Agent::clear_history: an absent private entry stays absent
clear_history(a, private, uid) ==
    IF private
    THEN IF uid \in DOMAIN a.private_histories
         THEN [a EXCEPT !.private_histories[uid] = <<>>] ELSE a
    ELSE [a EXCEPT !.public_history = <<>>]

\* Vec::remove(i - 1) for a 1-based i
RemoveAt(h, i) == SubSeq(h, 1, i - 1) \o SubSeq(h, i + 1, Len(h))

\* a variant of the sort that leaves the vector as it is
sort_desc_not(v) == v

\* sorted.sort_by(|a, b| b.cmp(a)): descending order
RECURSIVE sort_desc(_)
sort_desc(v) ==
    IF v = <<>> THEN <<>>
    ELSE LET m == CHOOSE i \in 1..Len(v) : \A j \in 1..Len(v) : v[i] >= v[j]
         IN  <<v[m]>> \o sort_desc(RemoveAt(v, m))

\* Vec::dedup: drops consecutive repeats
RECURSIVE dedup(_)
dedup(v) ==
    IF Len(v) < 2 THEN v
    ELSE IF v[1] = v[2] THEN dedup(Tail(v))
    ELSE <<v[1]>> \o dedup(Tail(v))

\* Vec::reverse
reverse(v) == [i \in 1..Len(v) |-> v[Len(v) + 1 - i]]

\* the loop of Agent::delete_at over the descending indices: the pair
\* <<history, deleted>> after it
RECURSIVE delete_loop(_, _, _)
delete_loop(h, sorted, deleted) ==
    IF sorted = <<>> THEN <<h, deleted>>
    ELSE LET i == Head(sorted)
         IN  IF i > 0 /\ i <= Len(h)
             THEN delete_loop(RemoveAt(h, i), Tail(sorted), Append(deleted, i))
             ELSE delete_loop(h, Tail(sorted), deleted)

\* Agent::delete_at: [agent |-> the agent after it, deleted |-> its result]
delete_at(a, private, uid, indices) ==
    LET a1 == IF private /\ uid \notin DOMAIN a.private_histories
              THEN history_set(a, private, uid, <<>>) ELSE a
        r == delete_loop(history(a1, private, uid), dedup(sort_desc(indices)), <<>>)
    IN  [agent |-> history_set(a1, private, uid, r[1]), deleted |-> reverse(r[2])]

\* a variant of Agent::edit_at that takes the index as 0-based
edit_at_zero_based(a, private, uid, idx, content) ==
    LET a1 == IF private /\ uid \notin DOMAIN a.private_histories
              THEN history_set(a, private, uid, <<>>) ELSE a
        h == history(a1, private, uid)
    IN  IF idx >= 0 /\ idx < Len(h)
        THEN [agent |-> history_set(a1, private, uid,
                                    [h EXCEPT ![idx + 1].content = content]),
              ok |-> TRUE]
        ELSE [agent |-> a1, ok |-> FALSE]

\* Agent::edit_at: [agent |-> the agent after it, ok |-> its result]
edit_at(a, private, uid, idx, content) ==
    LET a1 == IF private /\ uid \notin DOMAIN a.private_histories
              THEN history_set(a, private, uid, <<>>) ELSE a
        h == history(a1, private, uid)
    IN  IF idx > 0 /\ idx <= Len(h)
        THEN [agent |-> history_set(a1, private, uid,
                                    [h EXCEPT ![idx].content = content]),
              ok |-> TRUE]
        ELSE [agent |-> a1, ok |-> FALSE]

\* GeneratingState::default
GeneratingDefault == [public |-> {}, private |-> <<>>]

\* GeneratingState::is_generating
is_generating(g, agent, private, uid) ==
    IF private
    THEN agent \in DOMAIN g.private /\ uid \in g.private[agent]
    ELSE agent \in g.public

\* a variant of set_generating whose private unmark empties the agent's set
set_generating_clears(g, agent, private, uid, on) ==
    IF private
    THEN LET old == IF agent \in DOMAIN g.private THEN g.private[agent] ELSE {}
             new == IF on THEN old \cup {uid} ELSE {}
         IN  [g EXCEPT !.private = (agent :> new) @@ @]
    ELSE IF on THEN [g EXCEPT !.public = @ \cup {agent}]
    ELSE [g EXCEPT !.public = @ \ {agent}]

\* GeneratingState::set_generating: the private branch creates the agent's
\* set when it is absent, whether it marks or unmarks
set_generating(g, agent, private, uid, on) ==
    IF private
    THEN LET old == IF agent \in DOMAIN g.private THEN g.private[agent] ELSE {}
             new == IF on THEN old \cup {uid} ELSE old \ {uid}
         IN  [g EXCEPT !.private = (agent :> new) @@ @]
    ELSE IF on THEN [g EXCEPT !.public = @ \cup {agent}]
    ELSE [g EXCEPT !.public = @ \ {agent}]

(***************************************************************************)
(* Lookups in Config.agents.                                               *)
(***************************************************************************)
\* c.agents.iter().position(|a| a.name == name): 1-based, 0 for None
position(as, name) ==
    IF \E i \in 1..Len(as) : as[i].name = name
    THEN CHOOSE i \in 1..Len(as) :
             as[i].name = name /\ \A j \in 1..(i - 1) : as[j].name # name
    ELSE 0

\* Manager::agent_names
agent_names(as) == [i \in 1..Len(as) |-> as[i].name]

\* the name check of Action::Copy and Action::Rename (count > 7 or a reserved
\* character), shared with parser::parse_create
ReservedChars ==
    {"&", "\"", "#", "~", "/", " ", "-", "_", "'", "!", "@", "$", "%", ":", "*"}
MaxNameChars == 7

\* a variant of the name check without the limit of 7 characters
name_rejected_any_length(n) == \E i \in 1..Len(n) : n[i] \in ReservedChars

name_rejected(n) ==
    Len(n) > MaxNameChars \/ \E i \in 1..Len(n) : n[i] \in ReservedChars


(***************************************************************************)
(* utils::parse_indices.                                                   *)
(***************************************************************************)
Digits == {"0", "1", "2", "3", "4", "5", "6", "7", "8", "9"}
DigitVal(c) == CHOOSE d \in 0..9 : ToString(d) = c

\* the length of the run of digits s starts with
RECURSIVE digit_run(_)
digit_run(s) ==
    IF s # <<>> /\ Head(s) \in Digits THEN 1 + digit_run(Tail(s)) ELSE 0

\* str::parse::<usize> of a run of ASCII digits
RECURSIVE parse_usize(_)
parse_usize(s) ==
    IF s = <<>> THEN 0
    ELSE 10 * parse_usize(SubSeq(s, 1, Len(s) - 1)) + DigitVal(s[Len(s)])

\* a variant of the range that leaves its end out
range_excl(a, b) == [i \in 1..(IF b > a THEN b - a ELSE 0) |-> a + i - 1]

\* start..=end as a vector
range_incl(a, b) == [i \in 1..(IF b >= a THEN b - a + 1 ELSE 0) |-> a + i - 1]

\* captures_iter of (\d+)(?:-(\d+))? with the extend/push of each capture
RECURSIVE scan_indices(_)
scan_indices(s) ==
    IF s = <<>> THEN <<>>
    ELSE IF Head(s) \notin Digits THEN scan_indices(Tail(s))
    ELSE LET n1 == digit_run(s)
             start == parse_usize(SubSeq(s, 1, n1))
             r1 == DropChars(s, n1)
             n2 == IF r1 # <<>> /\ Head(r1) = "-" THEN digit_run(Tail(r1)) ELSE 0
         IN  IF n2 > 0
             THEN range_incl(start, parse_usize(SubSeq(r1, 2, n2 + 1)))
                      \o scan_indices(DropChars(r1, n2 + 1))
             ELSE <<start>> \o scan_indices(r1)

\* Vec::sort on usize
sort_asc(v) == reverse(sort_desc(v))

\* utils::parse_indices
parse_indices(s) ==
    LET t == [i \in 1..Len(s) |-> IF s[i] = "FW_COMMA" THEN "," ELSE s[i]]
    IN  dedup(sort_asc(scan_indices(t)))

(***************************************************************************)
(* parser: Command and the four parse entry points.                        *)
(***************************************************************************)
\* parser::Command; scope is the Scope carried by the Action variant ("-"
\* when the variant carries none), model_ref the String of
\* Action::AutoFillDescriptions
Command(agent, action, scope, args, indices, private_reply, text_mode) ==
    [agent |-> agent, action |-> action, scope |-> scope, args |-> args,
     indices |-> indices, private_reply |-> private_reply,
     text_mode |-> text_mode, model_ref |-> <<>>]

\* Command::new
CommandNew(agent, action) == Command(agent, action, "-", <<>>, <<>>, FALSE, FALSE)

\* the outcome of a parse entry point: Some(..), None, or a panic of the
\* thread (a str index that is out of range or not on a char boundary)
PSome(v) == [kind |-> "Some", val |-> v]
PNone == [kind |-> "None", val |-> <<>>]
PPanic == [kind |-> "Panic", val |-> <<>>]

\* parser::parse_global
parse_global(text) ==
    LET norm == normalize(trim(text))
    IN  IF norm = <<"o", "a", "i">> THEN PSome(CommandNew(<<>>, "Help"))
        ELSE IF norm = <<"/", "#">> THEN PSome(CommandNew(<<>>, "List"))
        ELSE IF norm = <<"/", "%">> THEN PSome(CommandNew(<<>>, "ListModels"))
        ELSE IF norm = <<"-", "*">> THEN PSome(CommandNew(<<>>, "ClearAllPublic"))
        ELSE IF norm = <<"-", "*", "!">>
             THEN PSome(CommandNew(<<>>, "ClearEverything"))
        ELSE IF starts_with(norm, <<"#", "#", ":">>)
             THEN PSome([CommandNew(<<>>, "AutoFillDescriptions") EXCEPT
                         !.model_ref = trim(unwrap_or_empty(str_get_from(norm, 3)))])
        ELSE PNone

\* str::split_whitespace
RECURSIVE split_whitespace(_)
split_whitespace(s) ==
    LET t == trim_start(s)
    IN  IF t = <<>> THEN <<>>
        ELSE LET ws == {i \in 1..Len(t) : is_whitespace(t[i])}
                 n == IF ws = {} THEN Len(t)
                      ELSE (CHOOSE i \in ws : \A j \in ws : i <= j) - 1
             IN  <<SubSeq(t, 1, n)>> \o split_whitespace(DropChars(t, n))

\* [&str]::join(" ")
RECURSIVE join_space(_)
join_space(parts) ==
    IF parts = <<>> THEN <<>>
    ELSE IF Len(parts) = 1 THEN parts[1]
    ELSE parts[1] \o <<" ">> \o join_space(Tail(parts))

MaxModelChars == 50

\* parser::parse_create: Some([name, desc, model, prompt]), None or a panic
parse_create(text) ==
    LET t == trim(text)
        norm == normalize(t)
    IN  IF ~starts_with(norm, <<"#", "#">>) THEN PNone
        ELSE
        LET start_pos == find_char(norm, {"#"}) + 2   \* norm.find("##") is 0 here
            after_o == str_get_from(t, start_pos)      \* &raw.trim()[start_pos..]
        IN  IF ~after_o.some THEN PPanic
            ELSE
            LET after == after_o.str
                f == find_char(after, {" ", "(", "FW_LPAREN"})
                name_end == IF f < 0 THEN byte_len(after) ELSE f
                name == trim(str_get_to(after, name_end).str)
            IN  IF name = <<>> \/ name_rejected(name) THEN PNone
                ELSE
                LET rest == str_get_from(after, name_end).str
                    paren == starts_with(rest, <<"(">>)
                             \/ starts_with(rest, <<"FW_LPAREN">>)
                    p1 == find_char(rest, {")"})
                    pos == IF p1 >= 0 THEN p1 ELSE find_char(rest, {"FW_RPAREN"})
                    has_desc == paren /\ pos >= 0
                    \* &rest[1..pos] and &rest[pos + 1..]
                    d_from == str_get_from(rest, 1)
                    d_to == IF d_from.some /\ pos >= 1
                            THEN str_get_to(d_from.str, pos - 1) ELSE NoStr
                    a_desc == str_get_from(rest, pos + 1)
                IN  IF has_desc /\ (~d_to.some \/ ~a_desc.some) THEN PPanic
                    ELSE
                    LET desc == IF has_desc THEN d_to.str ELSE <<>>
                        after_desc == IF has_desc THEN a_desc.str ELSE rest
                        parts == split_whitespace(after_desc)
                        model == IF parts = <<>> THEN <<>> ELSE parts[1]
                        prompt == IF Len(parts) > 1
                                  THEN join_space(Tail(parts)) ELSE <<>>
                    IN  IF Len(model) > MaxModelChars THEN PNone
                        ELSE PSome([name |-> name, desc |-> desc,
                                    model |-> model, prompt |-> prompt])

\* parser::parse_delete_agent: the name as typed (normalized), not the
\* registered one
parse_delete_agent(text, names) ==
    LET norm == normalize(trim(text))
    IN  IF ~starts_with(norm, <<"-", "#">>) THEN PNone
        ELSE LET name == trim(DropChars(norm, 2))
             IN  IF \E i \in 1..Len(names) : eq_ignore_ascii_case(names[i], name)
                 THEN PSome(name) ELSE PNone


\* str::splitn(2, ' '): the text before the first space and, when there is a
\* space, the text after it
splitn2_space(s) ==
    LET sp == {i \in 1..Len(s) : s[i] = " "}
    IN  IF sp = {} THEN <<s>>
        ELSE LET k == CHOOSE i \in sp : \A j \in sp : i <= j
             IN  <<SubSeq(s, 1, k - 1), DropChars(s, k)>>

\* the result of parser::parse_suffix: (Action, String, Vec<usize>)
SuffixResult(action, scope, args, indices) ==
    [action |-> action, scope |-> scope, args |-> args, indices |-> indices]

\* the first rule of parse_suffix (lines 862-876): "~" alone, or "~" followed
\* by anything but "#" and "$"
is_regenerate(s) ==
    (s = <<"~">> \/ s = <<"FW_TILDE">>)
    \/ ((starts_with(s, <<"~">>) \/ starts_with(s, <<"FW_TILDE">>))
        /\ ~starts_with(s, <<"~", "#">>)
        /\ ~starts_with(s, <<"~", "$">>)
        /\ ~starts_with(s, <<"FW_TILDE", "#">>)
        /\ ~starts_with(s, <<"FW_TILDE", "$">>))

\* r.get(skip_len..).unwrap_or("").trim()
arg_after(r, skip_len) == trim(unwrap_or_empty(str_get_from(r, skip_len)))

\* a variant of the "/" rule that returns for an empty index set as well
view_at_matches_any(clean) ==
    starts_with(clean, <<"/">>) /\ byte_len(clean) > 1

\* the index-taking rules of parse_suffix: "/" + indices (lines 945-951) and
\* "-" + indices (lines 970-976) return only for a non-empty index set
view_at_matches(clean) ==
    starts_with(clean, <<"/">>) /\ byte_len(clean) > 1
    /\ parse_indices(Tail(clean)) # <<>>
delete_at_matches(clean) ==
    starts_with(clean, <<"-">>) /\ byte_len(clean) > 1
    /\ parse_indices(Tail(clean)) # <<>>

\* the "'" rule (lines 957-964): splitn always yields a first part, so the
\* rule returns whenever the operator is there
edit_at_matches(clean, parts) == starts_with(clean, <<"'">>) /\ parts # <<>>

\* a variant of the scope rule that reads the mode prefix only
suffix_scope_prefix_only(has_priv_prefix, has_local_priv) ==
    IF has_priv_prefix THEN "Private" ELSE "Public"

\* the scope of the history operators (lines 929-933)
suffix_scope(has_priv_prefix, has_local_priv) ==
    IF has_priv_prefix \/ has_local_priv THEN "Private" ELSE "Public"

\* parser::parse_suffix
parse_suffix(norm, rawsfx, has_priv_prefix) ==
    LET s == trim(norm)
        r == trim(rawsfx)
    IN  IF s = <<>> THEN SuffixResult("Chat", "-", r, <<>>)
        ELSE IF is_regenerate(s)
        THEN LET skip_len == IF starts_with(s, <<"FW_TILDE">>)
                             THEN len_utf8("FW_TILDE") ELSE len_utf8("~")
             IN  SuffixResult("Regenerate", "-", arg_after(r, skip_len), <<>>)
        ELSE IF s = <<"!">> THEN SuffixResult("Stop", "-", <<>>, <<>>)
        ELSE IF starts_with(s, <<"~", "#">>) \/ starts_with(s, <<"~", "FW_HASH">>)
        THEN LET skip_len == IF starts_with(r, <<"~", "FW_HASH">>)
                             THEN byte_len(<<"FW_TILDE", "FW_HASH">>)
                             ELSE byte_len(<<"~", "#">>)
             IN  SuffixResult("Copy", "-", arg_after(r, skip_len), <<>>)
        ELSE IF starts_with(s, <<"~", "=">>) \/ starts_with(s, <<"~", "FW_EQ">>)
        THEN LET skip_len == IF starts_with(r, <<"~", "FW_EQ">>)
                             THEN byte_len(<<"~", "FW_EQ">>)
                             ELSE byte_len(<<"~", "=">>)
             IN  SuffixResult("Rename", "-", arg_after(r, skip_len), <<>>)
        ELSE IF (starts_with(s, <<":">>) \/ starts_with(s, <<"FW_COLON">>))
                /\ ~starts_with(s, <<":", "/">>)
                /\ ~starts_with(s, <<"FW_COLON", "/">>)
        THEN LET skip_len == IF starts_with(r, <<"FW_COLON">>)
                             THEN len_utf8("FW_COLON") ELSE len_utf8(":")
             IN  SuffixResult("SetDesc", "-", arg_after(r, skip_len), <<>>)
        ELSE IF starts_with(s, <<"%">>)
        THEN SuffixResult("SetModel", "-", arg_after(r, 1), <<>>)
        ELSE IF starts_with(s, <<"$">>) /\ s # <<"/", "$">>
        THEN SuffixResult("SetPrompt", "-", arg_after(r, 1), <<>>)
        ELSE IF s = <<"/", "$">> THEN SuffixResult("ViewPrompt", "-", <<>>, <<>>)
        ELSE
        LET has_local_priv == starts_with(s, <<"&">>)
            clean == IF has_local_priv THEN Tail(s) ELSE s
            clean_raw == IF has_local_priv
                         THEN trim(IF starts_with(r, <<"&">>) THEN Tail(r) ELSE <<>>)
                         ELSE r
            scope == suffix_scope(has_priv_prefix, has_local_priv)
            parts == splitn2_space(unwrap_or_empty(str_get_from(clean_raw, 1)))
        IN  IF clean = <<"/", "*">> THEN SuffixResult("ViewAll", scope, <<>>, <<>>)
            ELSE IF view_at_matches(clean)
            THEN SuffixResult("ViewAt", scope, <<>>, parse_indices(Tail(clean)))
            ELSE IF clean = <<"_", "*">>
            THEN SuffixResult("Export", scope, <<>>, <<>>)
            ELSE IF edit_at_matches(clean, parts)
            THEN SuffixResult("EditAt", scope,
                              IF Len(parts) > 1 THEN parts[2] ELSE <<>>,
                              parse_indices(parts[1]))
            ELSE IF clean = <<"-", "*">>
            THEN SuffixResult("ClearHistory", scope, <<>>, <<>>)
            ELSE IF delete_at_matches(clean)
            THEN SuffixResult("DeleteAt", scope, <<>>, parse_indices(Tail(clean)))
            ELSE SuffixResult("Chat", "-", r, <<>>)

\* a variant of the mode-prefix scan that consumes one marker at most
mode_prefix_len_one(chars) ==
    IF chars # <<>> /\ Head(chars) \in {"&", "\""} THEN 1 ELSE 0

\* the mode-prefix scan of parse_agent_cmd (lines 785-801): the number of
\* leading '&' and '"' characters
RECURSIVE mode_prefix_len(_)
mode_prefix_len(chars) ==
    IF chars # <<>> /\ Head(chars) \in {"&", "\""}
    THEN 1 + mode_prefix_len(Tail(chars)) ELSE 0

\* a variant of the sort that leaves the names in registry order
sort_not(names) == names

\* sorted.sort_by_key(|b| Reverse(b.chars().count())): a stable sort, the
\* longest names first
RECURSIVE sort_by_len_desc(_)
sort_by_len_desc(names) ==
    IF names = <<>> THEN <<>>
    ELSE LET m == CHOOSE i \in 1..Len(names) :
                      /\ \A j \in 1..Len(names) : Len(names[i]) >= Len(names[j])
                      /\ \A j \in 1..(i - 1) : Len(names[j]) < Len(names[i])
         IN  <<names[m]>> \o sort_by_len_desc(RemoveAt(names, m))

\* the persona-name resolution of parse_agent_cmd (lines 806-823): the first
\* name of the sorted list whose lower-case form starts the lower-cased
\* content; <<>> when there is none
RECURSIVE first_match(_, _)
first_match(sorted, content) ==
    IF sorted = <<>> THEN <<>>
    ELSE IF starts_with(to_lowercase(content), to_lowercase(Head(sorted)))
    THEN Head(sorted)
    ELSE first_match(Tail(sorted), content)
resolve_agent(content, names) == first_match(sort_by_len_desc(names), content)

\* parse_agent_cmd up to the call of parse_suffix (lines 777-838): the mode
\* flags, the persona name and the two suffixes, the normalized one and the
\* raw one, which is cut at the same number of characters
agent_split(text, names) ==
    LET t == trim(text)
        norm == normalize(t)
        char_idx == mode_prefix_len(norm)
        content == DropChars(norm, char_idx)
        agent_name == resolve_agent(content, names)
        match_char_len == Len(agent_name)
    IN  [private_reply |-> \E i \in 1..char_idx : norm[i] = "&",
         text_mode |-> \E i \in 1..char_idx : norm[i] = "\"",
         agent_name |-> agent_name,
         suffix |-> trim(DropChars(content, match_char_len)),
         raw_suffix |-> trim(DropChars(DropChars(t, char_idx), match_char_len))]

\* parser::parse_agent_cmd
parse_agent_cmd(text, names) ==
    LET sp == agent_split(text, names)
        sr == parse_suffix(sp.suffix, sp.raw_suffix, sp.private_reply)
    IN  IF trim(text) = <<>> THEN PNone
        ELSE IF sp.agent_name = <<>> THEN PNone
        ELSE PSome(Command(sp.agent_name, sr.action, sr.scope, sr.args,
                           sr.indices, sp.private_reply, sp.text_mode))


(***************************************************************************)
(* data::Manager::resolve_model and the single-section arms of             *)
(* logic::execute, as functions of Config.agents.                          *)
(***************************************************************************)
\* str::contains
contains(s, sub) ==
    \E k \in 0..(Len(s) - Len(sub)) : SubSeq(s, k + 1, k + Len(sub)) = sub

\* Manager::resolve_model: Some(model) or None
resolve_model(input, ms) ==
    IF input = <<>> THEN NoStr
    ELSE IF digit_run(input) = Len(input)
            /\ parse_usize(input) > 0 /\ parse_usize(input) <= Len(ms)
    THEN SomeStr(ms[parse_usize(input)])
    ELSE IF \E i \in 1..Len(ms) : contains(to_lowercase(ms[i]), to_lowercase(input))
    THEN SomeStr(ms[CHOOSE i \in 1..Len(ms) :
                       /\ contains(to_lowercase(ms[i]), to_lowercase(input))
                       /\ \A j \in 1..(i - 1) :
                              ~contains(to_lowercase(ms[j]), to_lowercase(input))])
    ELSE SomeStr(input)

\* Config::default_prompt as Manager::new sets it, and the two descriptions
\* the handlers write ("You are a helpful assistant.", "新建智能体")
DefaultPrompt == <<"DEFAULT_PROMPT">>
NewAgentDesc == <<"NEW_AGENT">>

\* logic::handle_create: Config.agents after it
handle_create(as, ms, name, desc, model0, prompt0) ==
    LET rm == resolve_model(model0, ms)
        model == IF rm.some THEN rm.str ELSE model0
        idx == position(as, name)
        prompt == IF prompt0 = <<>> /\ idx = 0 THEN DefaultPrompt ELSE prompt0
    IN  IF idx # 0
        THEN [as EXCEPT ![idx] =
                 [@ EXCEPT !.model = IF model # <<>> THEN model ELSE @,
                           !.system_prompt = prompt,
                           !.description = IF desc # <<>> THEN desc ELSE @]]
        ELSE Append(as, AgentNew(name, model, prompt,
                                 IF desc = <<>> THEN NewAgentDesc ELSE desc))

\* the result of one arm of logic::execute: Config.agents after it and the
\* kind of reply it sends
ExecResult(as, reply) == [agents |-> as, reply |-> reply]

\* a variant of Action::Copy that clones the source with its conversations
exec_copy_clones(as, c) ==
    IF c.args = <<>> THEN ExecResult(as, "invalid")
    ELSE IF name_rejected(c.args) THEN ExecResult(as, "invalid")
    ELSE IF \E i \in 1..Len(as) : as[i].name = c.args THEN ExecResult(as, "invalid")
    ELSE IF position(as, c.agent) # 0
    THEN ExecResult(Append(as, [as[position(as, c.agent)] EXCEPT !.name = c.args]),
                    "ok")
    ELSE ExecResult(as, "notfound")

\* Action::Copy (lines 1554-1586)
exec_copy(as, c) ==
    IF c.args = <<>> THEN ExecResult(as, "invalid")
    ELSE IF name_rejected(c.args) THEN ExecResult(as, "invalid")
    ELSE IF \E i \in 1..Len(as) : as[i].name = c.args THEN ExecResult(as, "invalid")
    ELSE IF position(as, c.agent) # 0
    THEN LET src == as[position(as, c.agent)]
         IN  ExecResult(Append(as, AgentNew(c.args, src.model, src.system_prompt,
                                            src.description)), "ok")
    ELSE ExecResult(as, "notfound")

\* Action::Rename (lines 1588-1616)
exec_rename(as, c) ==
    IF c.args = <<>> THEN ExecResult(as, "invalid")
    ELSE IF name_rejected(c.args) THEN ExecResult(as, "invalid")
    ELSE IF \E i \in 1..Len(as) : as[i].name = c.args THEN ExecResult(as, "invalid")
    ELSE IF position(as, c.agent) # 0
    THEN ExecResult([as EXCEPT ![position(as, c.agent)].name = c.args], "ok")
    ELSE ExecResult(as, "notfound")

\* Action::Delete (lines 1757-1766)
exec_delete(as, c) ==
    IF position(as, c.agent) # 0
    THEN ExecResult(RemoveAt(as, position(as, c.agent)), "ok")
    ELSE ExecResult(as, "notfound")

\* Action::SetDesc, Action::SetModel, Action::SetPrompt (lines 1618-1667)
exec_set(as, ms, c) ==
    LET idx == position(as, c.agent)
    IN  IF c.action # "SetPrompt" /\ c.args = <<>> THEN ExecResult(as, "invalid")
        ELSE IF c.action = "SetModel" /\ ~resolve_model(c.args, ms).some
        THEN ExecResult(as, "invalid")
        ELSE IF idx = 0 THEN ExecResult(as, "notfound")
        ELSE IF c.action = "SetDesc"
        THEN ExecResult([as EXCEPT ![idx].description = c.args], "ok")
        ELSE IF c.action = "SetModel"
        THEN ExecResult([as EXCEPT ![idx].model = resolve_model(c.args, ms).str], "ok")
        ELSE ExecResult([as EXCEPT ![idx].system_prompt = c.args], "ok")

\* a variant of Action::EditAt that also increments generation_id
exec_edit_at_bumps(as, c, uid) ==
    IF c.indices = <<>> THEN ExecResult(as, "invalid")
    ELSE IF c.args = <<>> THEN ExecResult(as, "invalid")
    ELSE IF position(as, c.agent) = 0 THEN ExecResult(as, "notfound")
    ELSE LET idx == position(as, c.agent)
             e == edit_at(as[idx], c.scope = "Private", uid, c.indices[1], c.args)
         IN  ExecResult([as EXCEPT ![idx] =
                            IF e.ok THEN [e.agent EXCEPT !.generation_id = @ + 1]
                            ELSE e.agent],
                        IF e.ok THEN "ok" ELSE "notfound")

\* Action::EditAt (lines 2038-2060)
exec_edit_at(as, c, uid) ==
    IF c.indices = <<>> THEN ExecResult(as, "invalid")
    ELSE IF c.args = <<>> THEN ExecResult(as, "invalid")
    ELSE IF position(as, c.agent) = 0 THEN ExecResult(as, "notfound")
    ELSE LET idx == position(as, c.agent)
             e == edit_at(as[idx], c.scope = "Private", uid, c.indices[1], c.args)
         IN  ExecResult([as EXCEPT ![idx] = e.agent],
                        IF e.ok THEN "ok" ELSE "notfound")

\* Action::DeleteAt (lines 2062-2088)
exec_delete_at(as, c, uid) ==
    IF c.indices = <<>> THEN ExecResult(as, "invalid")
    ELSE IF position(as, c.agent) = 0 THEN ExecResult(as, "notfound")
    ELSE LET idx == position(as, c.agent)
             d == delete_at(as[idx], c.scope = "Private", uid, c.indices)
         IN  ExecResult([as EXCEPT ![idx] = d.agent],
                        IF d.deleted = <<>> THEN "notfound" ELSE "ok")

\* the arms of logic::execute that only read: Help, List, ListModels,
\* ViewPrompt, ViewAll, ViewAt, Export
ReadOnlyActions ==
    {"Help", "List", "ListModels", "ViewPrompt", "ViewAll", "ViewAt", "Export"}
exec_read(as, c, uid) ==
    IF c.action \in {"Help", "List", "ListModels"} THEN ExecResult(as, "ok")
    ELSE IF c.action = "ViewAt" /\ c.indices = <<>> THEN ExecResult(as, "invalid")
    ELSE IF position(as, c.agent) = 0 THEN ExecResult(as, "notfound")
    ELSE LET h == history(as[position(as, c.agent)], c.scope = "Private", uid)
         IN  IF c.action = "ViewAt" /\ \A i \in 1..Len(c.indices) :
                                            ~(c.indices[i] > 0 /\ c.indices[i] <= Len(h))
             THEN ExecResult(as, "notfound")
             ELSE ExecResult(as, "ok")

\* the arms of logic::execute that run in one section under the Config lock
exec_simple(as, ms, c, uid) ==
    IF c.action = "Copy" THEN exec_copy(as, c)
    ELSE IF c.action = "Rename" THEN exec_rename(as, c)
    ELSE IF c.action = "Delete" THEN exec_delete(as, c)
    ELSE IF c.action \in {"SetDesc", "SetModel", "SetPrompt"} THEN exec_set(as, ms, c)
    ELSE IF c.action = "EditAt" THEN exec_edit_at(as, c, uid)
    ELSE IF c.action = "DeleteAt" THEN exec_delete_at(as, c, uid)
    ELSE exec_read(as, c, uid)


(***************************************************************************)
(* The messages the model's users send.  A message is received by on_msg   *)
(* (lines 2374-2429), routed by the parse entry points in their order, and *)
(* handled by logic::handle_create or logic::execute.                      *)
(***************************************************************************)
TypedNames == {<<"b">>, <<"B">>}

\* the texts after a persona name: chat, regenerate, stop, copy, edit, delete,
\* clear, view
Suffixes ==
    {<<" ", "h">>, <<"~">>, <<"!">>, <<"~", "#", "B">>, <<"'", "1", " ", "e">>,
     <<"-", "1">>, <<"-", "*">>, <<"/", "1">>}

\* the same for the private scope: chat, stop and clear after the private
\* mode prefix, clear and delete after the local private marker
PrivateMessages ==
    {<<"&", "b", " ", "h">>, <<"&", "b", "!">>, <<"&", "b", "-", "*">>,
     <<"b", "&", "-", "*">>, <<"b", "&", "-", "1">>}

\* create in both letter cases, delete-persona, the two global clears, and
\* the persona commands
Messages ==
    {<<"#", "#">> \o n : n \in TypedNames}
    \cup {<<"-", "#", "b">>, <<"-", "*">>, <<"-", "*", "!">>}
    \cup {<<"b">> \o sfx : sfx \in Suffixes}
    \cup PrivateMessages

\* what utils::get_full_content adds: no quoted message, no images
\* (lines 2415-2425): prompt = cmd.args.trim() for Chat and Regenerate
chat_prompt(c) == trim(c.args)

\* the locals of a handler: the sender, the tuple of parse_create, and the
\* locals of chat::inner (hist, gen_id, the provider's answer)
NoCreate == [name |-> <<>>, desc |-> <<>>, model |-> <<>>, prompt |-> <<>>]
NoLoc == [uid |-> "", create |-> NoCreate, hist |-> <<>>, gen_id |-> 0,
          res |-> "-"]
NoCommand == CommandNew(<<>>, "Create")

\* the first section of logic::execute for a command
first_section(c) ==
    IF c.action \in {"Chat", "Regenerate"} THEN "chat_check"
    ELSE IF c.action = "Stop" THEN "stop_unmark"
    ELSE IF c.action \in {"ClearHistory", "ClearAllPublic", "ClearEverything"}
    THEN "clear_unmark"
    ELSE "exec"

\* a variant of the routing that tries the persona command first
route_of_persona_first(g, cr, d, a) ==
    IF a.kind = "Some"
    THEN [cmd |-> a.val, create |-> NoCreate, start |-> first_section(a.val)]
    ELSE IF g.kind = "Some"
    THEN [cmd |-> g.val, create |-> NoCreate, start |-> first_section(g.val)]
    ELSE IF cr.kind = "Panic"
    THEN [cmd |-> NoCommand, create |-> NoCreate, start |-> "panic"]
    ELSE IF cr.kind = "Some"
    THEN [cmd |-> NoCommand, create |-> cr.val, start |-> "create"]
    ELSE IF d.kind = "Some"
    THEN [cmd |-> CommandNew(d.val, "Delete"), create |-> NoCreate,
          start |-> "exec"]
    ELSE [cmd |-> NoCommand, create |-> NoCreate, start |-> "none"]

\* the routing of on_msg on the results g, cr, d, a of the four parse entry
\* points, tried in this order: [cmd, create, start] for a text that is a
\* command, start = "none" for a text that is none
route_of(g, cr, d, a) ==
    IF g.kind = "Some"
    THEN [cmd |-> g.val, create |-> NoCreate, start |-> first_section(g.val)]
    ELSE IF cr.kind = "Panic"
    THEN [cmd |-> NoCommand, create |-> NoCreate, start |-> "panic"]
    ELSE IF cr.kind = "Some"
    THEN [cmd |-> NoCommand, create |-> cr.val, start |-> "create"]
    ELSE IF d.kind = "Some"
    THEN [cmd |-> CommandNew(d.val, "Delete"), create |-> NoCreate,
          start |-> "exec"]
    ELSE IF a.kind = "Some"
    THEN [cmd |-> a.val, create |-> NoCreate, start |-> first_section(a.val)]
    ELSE [cmd |-> NoCommand, create |-> NoCreate, start |-> "none"]

route(text, names) ==
    route_of(parse_global(text), parse_create(text),
             parse_delete_agent(text, names), parse_agent_cmd(text, names))

(***************************************************************************)
(* The handlers.                                                           *)
(***************************************************************************)
ModelLists == {<<>>}

DInit ==
    /\ agents = <<>>
    /\ api_ok = FALSE
    /\ models = <<>>
    /\ generating = GeneratingDefault
    /\ pc = [h \in Handlers |-> "idle"]
    /\ cmd = [h \in Handlers |-> NoCommand]
    /\ loc = [h \in Handlers |-> NoLoc]
    /\ issued = 0

\* a handler returns without a reply: its slot is free for the next message
Finish(h) ==
    /\ pc' = [pc EXCEPT ![h] = "idle"]
    /\ cmd' = [cmd EXCEPT ![h] = NoCommand]
    /\ loc' = [loc EXCEPT ![h] = NoLoc]

\* a handler replies (reply_text, or the message of the provider's answer)
\* and returns: the kind of its reply stays in its slot until the slot takes
\* the next message
Replied(h, r) ==
    /\ pc' = [pc EXCEPT ![h] = "idle"]
    /\ cmd' = [cmd EXCEPT ![h] = NoCommand]
    /\ loc' = [loc EXCEPT ![h] = [NoLoc EXCEPT !.res = r]]

Goto(h, l) == pc' = [pc EXCEPT ![h] = l] /\ UNCHANGED cmd

\* on_msg, the API configuration text (lines 2383-2395): the key and base are
\* stored and Manager::fetch_models stores the list it gets, if it gets one
ApiConfig ==
    /\ \E ms \in ModelLists \cup {models} : models' = ms
    /\ api_ok' = TRUE
    /\ ~(api_ok /\ models' = models)
    /\ UNCHANGED <<agents, generating, pc, cmd, loc, issued>>

\* the commands whose handler reads event.user_id: those on a private
\* history or a private key (the sender of any other command is not kept)
reads_uid(c) == c.private_reply \/ c.scope = "Private"

\* on_msg receives a text from user u and parses it (lines 2397-2414); the
\* names are Manager::agent_names at that moment
Receive(h, u, text) ==
    /\ pc[h] = "idle"
    /\ \A g \in Handlers : g < h => pc[g] # "idle"   \* the first free slot
    /\ issued < MaxCmds
    /\ \E r \in {route(text, agent_names(agents))} :
        /\ r.start \notin {"none", "panic"}
        /\ reads_uid(r.cmd) \/ u = "u1"
        /\ issued' = issued + 1
        /\ pc' = [pc EXCEPT ![h] = r.start]
        /\ cmd' = [cmd EXCEPT ![h] = r.cmd]
        /\ loc' = [loc EXCEPT ![h] = [NoLoc EXCEPT !.uid = u, !.create = r.create]]
        /\ UNCHANGED <<agents, api_ok, models, generating>>

\* logic::handle_create under the Config write lock
Create(h) ==
    /\ pc[h] = "create"
    /\ agents' = handle_create(agents, models, loc[h].create.name,
                               loc[h].create.desc, loc[h].create.model,
                               loc[h].create.prompt)
    /\ Replied(h, "ok")
    /\ UNCHANGED <<api_ok, models, generating, issued>>

\* logic::execute, the arms that run in one section
Exec(h) ==
    /\ pc[h] = "exec"
    /\ \E e \in {exec_simple(agents, models, cmd[h], loc[h].uid)} :
           agents' = e.agents /\ Replied(h, e.reply)
    /\ UNCHANGED <<api_ok, models, generating, issued>>


\* Action::Stop, first section (lines 1539-1543): the key is unmarked under
\* the GeneratingState write lock
StopUnmark(h) ==
    /\ pc[h] = "stop_unmark"
    /\ generating' = set_generating(generating, cmd[h].agent,
                                    cmd[h].private_reply, loc[h].uid, FALSE)
    /\ Goto(h, "stop_write")
    /\ UNCHANGED <<agents, api_ok, models, loc, issued>>

\* a variant of the second section of Action::Stop that adds two
StopWrite_by_two(h) ==
    /\ pc[h] = "stop_write"
    /\ LET idx == position(agents, cmd[h].agent)
       IN  agents' = IF idx # 0
                     THEN [agents EXCEPT ![idx].generation_id = @ + 2]
                     ELSE agents
    /\ Replied(h, IF position(agents, cmd[h].agent) # 0 THEN "ok" ELSE "notfound")
    /\ UNCHANGED <<api_ok, models, generating, issued>>

\* Action::Stop, second section (lines 1544-1551): generation_id += 1 under
\* the Config write lock
StopWrite(h) ==
    /\ pc[h] = "stop_write"
    /\ LET idx == position(agents, cmd[h].agent)
       IN  agents' = IF idx # 0
                     THEN [agents EXCEPT ![idx].generation_id = @ + 1]
                     ELSE agents
    /\ Replied(h, IF position(agents, cmd[h].agent) # 0 THEN "ok" ELSE "notfound")
    /\ UNCHANGED <<api_ok, models, generating, issued>>

\* Action::ClearHistory (lines 2091-2095), Action::ClearAllPublic (lines
\* 2110-2113), Action::ClearEverything (lines 2125-2129): the section under
\* the GeneratingState write lock
ClearUnmark(h) ==
    /\ pc[h] = "clear_unmark"
    /\ generating' =
           IF cmd[h].action = "ClearHistory"
           THEN set_generating(generating, cmd[h].agent, cmd[h].private_reply,
                               loc[h].uid, FALSE)
           ELSE IF cmd[h].action = "ClearAllPublic"
           THEN [generating EXCEPT !.public = {}]
           ELSE GeneratingDefault
    /\ Goto(h, "clear_write")
    /\ UNCHANGED <<agents, api_ok, models, loc, issued>>

\* the same three arms, the section under the Config write lock (lines
\* 2096-2106, 2114-2121, 2130-2138)
ClearWrite(h) ==
    /\ pc[h] = "clear_write"
    /\ agents' =
           IF cmd[h].action = "ClearHistory"
           THEN LET idx == position(agents, cmd[h].agent)
                IN  IF idx # 0
                    THEN [agents EXCEPT ![idx] =
                             [clear_history(@, cmd[h].scope = "Private", loc[h].uid)
                                  EXCEPT !.generation_id = @ + 1]]
                    ELSE agents
           ELSE IF cmd[h].action = "ClearAllPublic"
           THEN [i \in 1..Len(agents) |->
                     [agents[i] EXCEPT !.public_history = <<>>,
                                       !.generation_id = @ + 1]]
           ELSE [i \in 1..Len(agents) |->
                     [agents[i] EXCEPT !.public_history = <<>>,
                                       !.private_histories = <<>>,
                                       !.generation_id = @ + 1]]
    /\ Replied(h, IF cmd[h].action = "ClearHistory"
                     /\ position(agents, cmd[h].agent) = 0
                  THEN "notfound" ELSE "ok")
    /\ UNCHANGED <<api_ok, models, generating, issued>>

(***************************************************************************)
(* logic::chat::inner, section by section.                                 *)
(***************************************************************************)
\* the handler replies that the key is busy and returns; the reply stays
\* in its slot until the slot takes the next message
FinishBusy(h) ==
    /\ pc' = [pc EXCEPT ![h] = "idle"]
    /\ cmd' = [cmd EXCEPT ![h] = NoCommand]
    /\ loc' = [loc EXCEPT ![h] = [NoLoc EXCEPT !.res = "busy"]]

\* a variant of the busy check that unmarks the key when it rejects
ChatCheck_unmarks(h) ==
    /\ pc[h] = "chat_check"
    /\ IF is_generating(generating, cmd[h].agent, cmd[h].private_reply, loc[h].uid)
       THEN /\ FinishBusy(h)
            /\ generating' = set_generating(generating, cmd[h].agent,
                                            cmd[h].private_reply, loc[h].uid, FALSE)
       ELSE Goto(h, "chat_snap") /\ UNCHANGED <<loc, generating>>
    /\ UNCHANGED <<agents, api_ok, models, issued>>

\* lines 1184-1190: the busy check under the GeneratingState read lock
ChatCheck(h) ==
    /\ pc[h] = "chat_check"
    /\ IF is_generating(generating, cmd[h].agent, cmd[h].private_reply, loc[h].uid)
       THEN FinishBusy(h)
       ELSE Goto(h, "chat_snap") /\ UNCHANGED loc
    /\ UNCHANGED <<agents, api_ok, models, generating, issued>>

\* a variant that pops the last message whatever its role
pop_if_role_any(hist, role) ==
    IF hist # <<>> THEN SubSeq(hist, 1, Len(hist) - 1) ELSE hist

\* Vec::pop when the last message has the given role
pop_if_role(hist, role) ==
    IF hist # <<>> /\ hist[Len(hist)].role = role
    THEN SubSeq(hist, 1, Len(hist) - 1) ELSE hist

\* lines 1224-1242: the history the request is built from, computed on the
\* clone of the agent
request_history(a, c, uid) ==
    LET hist == history(a, c.private_reply, uid)
        prompt == chat_prompt(c)
    IN  IF c.action = "Regenerate"
        THEN LET h1 == pop_if_role(hist, "assistant")
             IN  IF prompt # <<>>
                 THEN Append(pop_if_role(h1, "user"), ChatMessage("user", prompt))
                 ELSE h1
        ELSE Append(hist, ChatMessage("user", prompt))

\* lines 1192-1242: the agent is cloned under the Config read lock; the
\* handler returns when there is no such agent, no API configuration or no
\* chat text
ChatSnap(h) ==
    /\ pc[h] = "chat_snap"
    /\ LET idx == position(agents, cmd[h].agent)
       IN  IF idx = 0 \/ ~api_ok
              \/ (cmd[h].action = "Chat" /\ chat_prompt(cmd[h]) = <<>>)
           THEN Replied(h, IF idx = 0 THEN "notfound"
                           ELSE IF ~api_ok THEN "no_api" ELSE "invalid")
           ELSE /\ loc' = [loc EXCEPT ![h].hist =
                               request_history(agents[idx], cmd[h], loc[h].uid)]
                /\ Goto(h, "chat_write")
    /\ UNCHANGED <<agents, api_ok, models, generating, issued>>

\* lines 1244-1255: the history is stored and generation_id incremented
\* under the Config write lock; gen_id is the incremented value
ChatWrite(h) ==
    /\ pc[h] = "chat_write"
    /\ LET idx == position(agents, cmd[h].agent)
       IN  IF idx # 0
           THEN /\ agents' = [agents EXCEPT ![idx] =
                                 [history_set(@, cmd[h].private_reply, loc[h].uid,
                                              loc[h].hist)
                                      EXCEPT !.generation_id = @ + 1]]
                /\ loc' = [loc EXCEPT ![h].gen_id = agents[idx].generation_id + 1]
                /\ Goto(h, "chat_mark")
           ELSE Finish(h) /\ UNCHANGED agents
    /\ UNCHANGED <<api_ok, models, generating, issued>>

\* lines 1257-1260: the key is marked under the GeneratingState write lock
ChatMark(h) ==
    /\ pc[h] = "chat_mark"
    /\ generating' = set_generating(generating, cmd[h].agent,
                                    cmd[h].private_reply, loc[h].uid, TRUE)
    /\ Goto(h, "chat_call")
    /\ UNCHANGED <<agents, api_ok, models, loc, issued>>

\* what the request ends with: a reply with content, a reply without, an API
\* error, the 300 s timeout, or a request that could not be built
Answers == {"content", "empty", "error", "timeout", "build_error"}

\* a variant of the return from the provider call in which the expiry of
\* the wait does not unmark the key
ChatReturn_expiry_keeps(h, ans) ==
    /\ pc[h] = "chat_call"
    /\ generating' = IF ans = "timeout" THEN generating
                     ELSE set_generating(generating, cmd[h].agent,
                                         cmd[h].private_reply, loc[h].uid, FALSE)
    /\ IF ans \in {"content", "empty"}
       THEN loc' = [loc EXCEPT ![h].res = ans] /\ Goto(h, "chat_verify")
       ELSE Replied(h, ans)
    /\ UNCHANGED <<agents, api_ok, models, issued>>

\* a variant of the return from the provider call that leaves the key marked
\* when the call failed
ChatReturn_keeps_mark(h, ans) ==
    /\ pc[h] = "chat_call"
    /\ IF ans \in {"content", "empty"}
       THEN /\ generating' = set_generating(generating, cmd[h].agent,
                                            cmd[h].private_reply, loc[h].uid, FALSE)
            /\ loc' = [loc EXCEPT ![h].res = ans] /\ Goto(h, "chat_verify")
       ELSE Replied(h, ans) /\ UNCHANGED generating
    /\ UNCHANGED <<agents, api_ok, models, issued>>

\* lines 1342-1379 and 1494-1500: whatever the request ends with, the key is
\* unmarked under the GeneratingState write lock; only a reply goes on
ChatReturn(h, ans) ==
    /\ pc[h] = "chat_call"
    /\ generating' = set_generating(generating, cmd[h].agent,
                                    cmd[h].private_reply, loc[h].uid, FALSE)
    /\ IF ans \in {"content", "empty"}
       THEN loc' = [loc EXCEPT ![h].res = ans] /\ Goto(h, "chat_verify")
       ELSE Replied(h, ans)
    /\ UNCHANGED <<agents, api_ok, models, issued>>

\* lines 1381-1391: the version check under the Config read lock; an agent
\* that is no longer there passes it
version_stale(as, name, gen_id) ==
    position(as, name) # 0 /\ as[position(as, name)].generation_id # gen_id

ChatVerify(h) ==
    /\ pc[h] = "chat_verify"
    /\ IF version_stale(agents, cmd[h].agent, loc[h].gen_id) \/ loc[h].res = "empty"
       THEN Finish(h)
       ELSE Goto(h, "chat_append") /\ UNCHANGED loc
    /\ UNCHANGED <<agents, api_ok, models, generating, issued>>

\* the text of the provider's reply
ReplyText == <<"r">>

\* lines 1393-1412: the assistant message is pushed under the Config write
\* lock (the read of msg_index before it only feeds the reply's header)
ChatAppend(h) ==
    /\ pc[h] = "chat_append"
    /\ LET idx == position(agents, cmd[h].agent)
       IN  agents' =
               IF idx # 0
               THEN [agents EXCEPT ![idx] =
                        history_set(@, cmd[h].private_reply, loc[h].uid,
                                    Append(history(@, cmd[h].private_reply, loc[h].uid),
                                           ChatMessage("assistant", ReplyText)))]
               ELSE agents
    /\ Replied(h, "ok")
    /\ UNCHANGED <<api_ok, models, generating, issued>>

(***************************************************************************)
(* The specification of the handlers.                                      *)
(***************************************************************************)
\* what the parser specification keeps: the results of one entry point on a
\* text and on its ASCII form
NoParse == [got |-> PNone, ascii |-> PNone]

\* the arguments of a utility function: the function, the tokens of an
\* index expression and their separator, a history, the scope, a list of
\* indices and one index
UtilIn(fn, toks, sep, hist, private, idxs, idx) ==
    [fn |-> fn, toks |-> toks, sep |-> sep, hist |-> hist,
     private |-> private, idxs |-> idxs, idx |-> idx]
NoUtil == UtilIn("-", <<>>, ",", <<>>, FALSE, <<>>, 0)

UIdle == uin = NoUtil /\ uout = <<>>

\* the two tokio RwLocks of Manager (lines 991-1011), each with the handler
\* that holds its write guard (0 for none) and the number of read guards of
\* every handler and the first-in, first-out queue of the handlers waiting
\* for a guard; and, per handler, the path its task runs, the position
\* on it and the external call it awaits
NoLocks ==
    [w |-> [config |-> 0, generating |-> 0],
     r |-> [config |-> [h \in Handlers |-> 0],
            generating |-> [h \in Handlers |-> 0]],
     q |-> [config |-> <<>>, generating |-> <<>>],
     path |-> [h \in Handlers |-> "-"],
     at |-> [h \in Handlers |-> 0],
     pending |-> [h \in Handlers |-> "-"]]
LIdle == locks = NoLocks

PIdle ==
    /\ raw = <<>>
    /\ rawAscii = <<>>
    /\ pnames = <<>>
    /\ parsed = NoParse
    /\ ppc = "off"
    /\ UIdle
    /\ LIdle

Init == DInit /\ PIdle

Next ==
    \/ ApiConfig /\ UNCHANGED pvars
    \/ \E h \in Handlers, u \in Users, text \in Messages :
           Receive(h, u, text) /\ UNCHANGED pvars
    \/ \E h \in Handlers : Create(h) /\ UNCHANGED pvars
    \/ \E h \in Handlers : Exec(h) /\ UNCHANGED pvars
    \/ \E h \in Handlers : StopUnmark(h) /\ UNCHANGED pvars
    \/ \E h \in Handlers : StopWrite(h) /\ UNCHANGED pvars
    \/ \E h \in Handlers : ClearUnmark(h) /\ UNCHANGED pvars
    \/ \E h \in Handlers : ClearWrite(h) /\ UNCHANGED pvars
    \/ \E h \in Handlers : ChatCheck(h) /\ UNCHANGED pvars
    \/ \E h \in Handlers : ChatSnap(h) /\ UNCHANGED pvars
    \/ \E h \in Handlers : ChatWrite(h) /\ UNCHANGED pvars
    \/ \E h \in Handlers : ChatMark(h) /\ UNCHANGED pvars
    \/ \E h \in Handlers, ans \in Answers : ChatReturn(h, ans) /\ UNCHANGED pvars
    \/ \E h \in Handlers : ChatVerify(h) /\ UNCHANGED pvars
    \/ \E h \in Handlers : ChatAppend(h) /\ UNCHANGED pvars

Spec == Init /\ [][Next]_vars

(***************************************************************************)
(* Properties of the handlers.                                             *)
(***************************************************************************)
\* the key of GeneratingState a chat handler checks, marks and unmarks
gen_key(h) ==
    <<cmd[h].agent, cmd[h].private_reply,
      IF cmd[h].private_reply THEN loc[h].uid ELSE "">>

\* C1: at most one completion is in flight per key: no two handlers wait
\* for the provider's answer to a request on the same key
C1_OneInFlightPerKey ==
    \A g, h \in Handlers :
        (g # h /\ pc[g] = "chat_call" /\ pc[h] = "chat_call")
            => gen_key(g) # gen_key(h)

\* C2: a reply whose captured version is stale is never appended: every
\* step that pushes the assistant message finds the agent's generation_id
\* equal to the handler's gen_id
C2_StaleNeverAppended ==
    [][\A h \in Handlers :
           (pc[h] = "chat_append" /\ agents' # agents)
               => ~version_stale(agents, cmd[h].agent, loc[h].gen_id)]_vars

\* the handler whose section the step runs
steps(h) == pc'[h] # pc[h]

\* the sections that increment the generation_id of the persona named n
bumps(h, n) ==
    \/ pc[h] \in {"chat_write", "stop_write"} /\ cmd[h].agent = n
    \/ pc[h] = "clear_write" /\ (cmd[h].action = "ClearHistory" => cmd[h].agent = n)

\* an EditAt or DeleteAt that changes a history
edits(h, n) ==
    /\ pc[h] = "exec" /\ cmd[h].action \in {"EditAt", "DeleteAt"}
    /\ cmd[h].agent = n /\ agents' # agents

\* the generation_id of every persona that stays goes up by one in a step
\* for which B(n) holds and stays as it is in every other step
version_rule(B(_)) ==
    \A i \in 1..Len(agents) :
        LET n == agents[i].name
            j == position(agents', n)
        IN  j # 0 => agents'[j].generation_id
                        = agents[i].generation_id + (IF B(n) THEN 1 ELSE 0)

bumped(n) == \E h \in Handlers : steps(h) /\ bumps(h, n)
bumped_or_edited(n) == \E h \in Handlers : steps(h) /\ (bumps(h, n) \/ edits(h, n))

C4_VersionMonotone ==
    [][/\ \A i \in 1..Len(agents) :
              LET j == position(agents', agents[i].name)
              IN  j # 0 => agents'[j].generation_id
                              \in {agents[i].generation_id,
                                   agents[i].generation_id + 1}
       /\ \A j \in 1..Len(agents') :
              position(agents, agents'[j].name) = 0
                  => agents'[j].generation_id = 0]_vars

\* a persona whose version went up twice
C4_Twice == \E i \in 1..Len(agents) : agents[i].generation_id = 2

\* C5: the step in which a handler replies that the key is busy changes no
\* history, no version and no mark of GeneratingState
C5_BusyChangesNothing ==
    [][\A h \in Handlers :
           (loc'[h].res = "busy" /\ pc[h] # "idle")
               => agents' = agents /\ generating' = generating]_vars

\* a handler has replied busy while the first request is still in flight
C5_Rejected ==
    \E g, h \in Handlers :
        /\ pc[h] = "idle" /\ loc[h].res = "busy"
        /\ pc[g] = "chat_call"

\* C6: no two personas have names that are equal without regard to case
C6_NamesUniqueIgnoringCase ==
    \A i, j \in 1..Len(agents) :
        i # j => to_lowercase(agents[i].name) # to_lowercase(agents[j].name)

(***************************************************************************)
(* The specification of the parser: one of the four parse entry points of  *)
(* on_msg is applied to a text and to the ASCII form of the same text.     *)
(***************************************************************************)
\* the structural symbols of the command language: mode prefixes, the
\* creation prefix, operators, object symbols, the local private marker
Symbols == {"&", "\"", "#", "~", "/", "-", "_", "'", "!", "@", "$", "%", ":", "="}

\* a symbol of a text is structural unless it follows a digit (the "-" of a
\* range is a range symbol)
is_structural(s, i) == s[i] \in Symbols /\ ~(i > 1 /\ s[i - 1] \in Digits)

\* the ways a character is typed: itself and the full-width code points
\* utils::normalize maps to it
forms(c) == {c} \cup {f \in DOMAIN FullWidth : FullWidth[f] = c}

\* the texts that are s with any of its structural symbols typed full-width
RECURSIVE variants_from(_, _)
variants_from(s, i) ==
    IF i > Len(s) THEN {<<>>}
    ELSE {<<c>> \o t : c \in (IF is_structural(s, i) THEN forms(s[i]) ELSE {s[i]}),
                       t \in variants_from(s, i + 1)}
Variants(s) == variants_from(s, 1)

\* the mode prefixes and the texts typed after the persona name "b"
ModePrefixes == {<<>>, <<"&">>, <<"\"">>, <<"&", "\"">>}
ParseSuffixes ==
    {<<>>, <<" ", "h">>, <<" ", "ZH">>, <<"~">>, <<"~", "x">>, <<"~", "ZH">>,
     <<"~", "=", "x">>, <<"~", "#", "x">>, <<"~", "$", "x">>, <<"!">>,
     <<":", "x">>, <<"%", "x">>, <<"$", "x">>, <<"/", "$">>, <<"/", "*">>,
     <<"/", "1">>, <<"/", "1", ",", "2">>, <<"/", "1", "-", "2">>,
     <<"/", "x">>, <<"/">>, <<"_", "*">>, <<"'", "1", " ", "x">>,
     <<"'", "x">>, <<"'">>, <<"-", "*">>, <<"-", "1">>, <<"-", "x">>, <<"-">>,
     <<"&", "/", "*">>, <<"&", "/", "1">>, <<"&", "'", "1", " ", "x">>,
     <<"&", "-", "*">>, <<"&", "-", "1">>, <<"&", "-", "x">>,
     <<"&", "_", "*">>, <<"&", " ", "/", "*">>}

\* create, global and delete-persona texts, and texts that are no command
\* form or hold full-width parentheses
CreateTexts ==
    {<<"#", "#", "x">>, <<"#", "#", "b">>, <<"#", "#", " ", "x">>,
     <<"#", "#", "x", "(", "d", ")">>,
     <<"#", "#", "x", "(", "d", ")", " ", "m", " ", "x">>,
     <<"#", "#", "x", " ", "m", " ", "x">>, <<"#", "#", "x", "(", "d">>,
     <<"#", "#", "x", "&">>, <<"#", "#">>, <<"#", "#", "ZH">>}
GlobalTexts ==
    {<<"o", "a", "i">>, <<"/", "#">>, <<"/", "%">>, <<"-", "*">>,
     <<"-", "*", "!">>, <<"#", "#", ":", "m">>}
DeleteTexts ==
    {<<"-", "#", "b">>, <<"-", "#", "B">>, <<"-", "#", "x">>,
     <<"-", "#", " ", "b">>}
OtherTexts ==
    {<<>>, <<"ZH">>, <<"x", " ", "h">>, <<"B", " ", "h">>, <<"b", "x", "~">>,
     <<"#", "#", "x", "FW_LPAREN", "d", "FW_RPAREN">>,
     <<"#", "#", "x", "(", "d", "FW_RPAREN">>,
     <<"#", "#", "x", "FW_LPAREN", "d", ")">>}

\* mode prefixes that repeat a marker or give the markers in the other order
LongPrefixes == {<<"\"", "&">>, <<"&", "&">>, <<"\"", "&", "\"">>}
LongPrefixTexts ==
    {pre \o <<"b">> \o sfx :
         pre \in LongPrefixes,
         sfx \in {<<>>, <<" ", "h">>, <<"/", "1", "-", "2">>}}
    \cup {<<"B", "x", " ", "h">>}

AsciiTexts ==
    {pre \o <<"b">> \o sfx : pre \in ModePrefixes, sfx \in ParseSuffixes}
    \cup CreateTexts \cup GlobalTexts \cup DeleteTexts \cup OtherTexts
    \cup LongPrefixTexts

\* the registries the persona names are read from
ParseNames ==
    {<<>>, << <<"b">> >>, << <<"b">>, <<"b", "x">> >>, << <<"b", "x">>, <<"b">> >>,
     << <<"B">> >>, << <<"b">>, <<"B">> >>, << <<"o">> >>}

PInit ==
    /\ DInit
    /\ pnames \in ParseNames
    /\ \E a \in AsciiTexts : rawAscii = a /\ raw \in Variants(a)
    /\ parsed = NoParse
    /\ ppc = "input"
    /\ UIdle
    /\ LIdle

\* one entry point applied to raw and to rawAscii
Parsed(l, got, ascii) ==
    /\ ppc = "input"
    /\ ppc' = l
    /\ parsed' = [got |-> got, ascii |-> ascii]
    /\ UNCHANGED <<raw, rawAscii, pnames, uin, uout, locks>>
    /\ UNCHANGED dvars

ParseGlobal == Parsed("global", parse_global(raw), parse_global(rawAscii))
ParseCreate == Parsed("create", parse_create(raw), parse_create(rawAscii))
ParseDeleteAgent ==
    Parsed("delete", parse_delete_agent(raw, pnames),
           parse_delete_agent(rawAscii, pnames))
ParseAgentCmd ==
    Parsed("agent", parse_agent_cmd(raw, pnames), parse_agent_cmd(rawAscii, pnames))

\* on_msg: the four entry points in their order (lines 2397-2428)
Dispatch ==
    Parsed("route", PSome(route(raw, pnames)), PSome(route(rawAscii, pnames)))

PNext ==
    ParseGlobal \/ ParseCreate \/ ParseDeleteAgent \/ ParseAgentCmd \/ Dispatch

ParseSpec == PInit /\ [][PNext]_vars

(***************************************************************************)
(* Properties of the parser.                                               *)
(***************************************************************************)
\* the result of parse_agent_cmd on raw, when it is a command
is_command == ppc = "agent" /\ parsed.got.kind = "Some"
split == agent_split(raw, pnames)

\* C7: a suffix that starts with "~=" parses to Rename with the text after
\* "~=" as argument, and a suffix parses to Regenerate only when it starts
\* with neither "~#" nor "~="
C7_RenameRule ==
    is_command =>
        /\ starts_with(split.suffix, <<"~", "=">>)
               => /\ parsed.got.val.action = "Rename"
                  /\ parsed.got.val.args = trim(DropChars(split.raw_suffix, 2))
        /\ parsed.got.val.action = "Regenerate"
               => /\ ~starts_with(split.suffix, <<"~", "#">>)
                  /\ ~starts_with(split.suffix, <<"~", "=">>)

\* two results of one entry point are the same
same_result(a, b) == a.kind = b.kind /\ (a.kind = "Some" => a.val = b.val)

\* C8: a text with structural symbols typed full-width parses to the same
\* result as its ASCII form: the same action, scope, indices, flags and
\* argument
C8_FullWidthEquivalence ==
    ppc # "input" => same_result(parsed.got, parsed.ascii)

\* C9: no parse entry point fails fatally on any text
C9_ParsingTotal == ppc # "input" => parsed.got.kind # "Panic"

\* the suffix without the local private marker (clean of parse_suffix)
clean_suffix ==
    IF starts_with(split.suffix, <<"&">>) THEN Tail(split.suffix) ELSE split.suffix

\* a suffix that starts with one of the operators ops, has no parseable
\* index expression after it and is none of "/$", "/*", "-*"
no_index(ops) ==
    /\ clean_suffix # <<>> /\ Head(clean_suffix) \in ops
    /\ parse_indices(Tail(clean_suffix)) = <<>>
    /\ split.suffix # <<"/", "$">>
    /\ clean_suffix \notin {<<"/", "*">>, <<"-", "*">>}

\* for the actions acts and the operators ops: a command with one of the
\* actions carries a non-empty index set, and a suffix that starts with one
\* of the operators without a parseable index expression parses to Chat
\* with the entire raw suffix as argument
index_rule(acts, ops) ==
    is_command =>
        /\ parsed.got.val.action \in acts => parsed.got.val.indices # <<>>
        /\ no_index(ops) => /\ parsed.got.val.action = "Chat"
                            /\ parsed.got.val.args = split.raw_suffix

\* C10, as the code has it: ViewAt and DeleteAt carry a non-empty index
\* set, and a suffix that starts with "/" or "-" without a parseable index
\* expression parses to Chat with the entire raw suffix; EditAt is returned
\* for every suffix that starts with "'", with whatever indices it finds
C10_IndexRule == index_rule({"ViewAt", "DeleteAt"}, {"/", "-"})

\* C10, as stated: the same for EditAt and "'"
C10_IndexRuleWithEdit == index_rule({"ViewAt", "EditAt", "DeleteAt"}, {"/", "-", "'"})

\* a suffix "/x" was parsed to a Chat with the raw suffix as argument
C10_FellToChat ==
    /\ is_command /\ no_index({"/", "-"})
    /\ parsed.got.val.action = "Chat"
    /\ parsed.got.val.args = split.raw_suffix

\* the normalized text, the length of its leading run of mode markers, the
\* text after the run, and the registered names that start that text
\* without regard to case
norm_text == normalize(trim(raw))
run_len ==
    CHOOSE k \in 0..Len(norm_text) :
        /\ \A i \in 1..k : norm_text[i] \in {"&", "\""}
        /\ k < Len(norm_text) => norm_text[k + 1] \notin {"&", "\""}
rest_text == DropChars(norm_text, run_len)
prefix_names ==
    {i \in 1..Len(pnames) :
         starts_with(to_lowercase(rest_text), to_lowercase(pnames[i]))}

\* C11: a leading run of "&" and '"' in any order and multiplicity before a
\* registered name gives a command whose private flag is set iff "&" is in
\* the run and whose text-mode flag is set iff '"' is in the run; the text
\* &"b/1-2 gives private, text-mode, ViewAt(Private), indices [1,2]
C11_ModePrefixFlags ==
    (ppc = "agent" /\ prefix_names # {}) =>
        /\ parsed.got.kind = "Some"
        /\ parsed.got.val.private_reply
               = (\E i \in 1..run_len : norm_text[i] = "&")
        /\ parsed.got.val.text_mode
               = (\E i \in 1..run_len : norm_text[i] = "\"")
        /\ rawAscii = <<"&", "\"", "b", "/", "1", "-", "2">>
               => /\ parsed.got.val.action = "ViewAt"
                  /\ parsed.got.val.scope = "Private"
                  /\ parsed.got.val.indices = <<1, 2>>

\* a command parsed after a run of three markers that sets both flags
C11_LongRun ==
    /\ is_command /\ run_len = 3
    /\ parsed.got.val.private_reply /\ parsed.got.val.text_mode

\* C12: the name resolved is a registered name of maximal length among
\* those that start the text after the mode prefixes without regard to
\* case; when there is none the parser returns no command
C12_LongestName ==
    ppc = "agent" =>
        IF prefix_names = {} THEN parsed.got.kind = "None"
        ELSE /\ parsed.got.kind = "Some"
             /\ \E i \in prefix_names :
                    /\ parsed.got.val.agent = pnames[i]
                    /\ \A j \in prefix_names : Len(pnames[j]) <= Len(pnames[i])

\* the longer of two matching names was resolved though it is registered
\* second
C12_LongerSecond ==
    /\ is_command /\ parsed.got.val.agent = <<"b", "x">>
    /\ pnames = << <<"b">>, <<"b", "x">> >>

(***************************************************************************)
(* The specification of the utilities: utils::parse_indices,               *)
(* Agent::delete_at and Agent::edit_at applied to arguments drawn from     *)
(* bounded sets.                                                           *)
(***************************************************************************)
MaxIndex == 5      \* largest integer of an index expression or index list
MaxTokens == 2     \* tokens of an index expression
MaxHistory == 4    \* messages of a history
MaxIndices == 2    \* indices handed to delete_at

\* the digits of a number below 100
digits_of(n) ==
    IF n < 10 THEN <<ToString(n)>> ELSE <<ToString(n \div 10), ToString(n % 10)>>

\* the tokens of an index expression: a bare integer, a range lo-hi, or a
\* token that is no number
Tokens ==
    {[kind |-> "bare", lo |-> n, hi |-> n] : n \in 0..MaxIndex}
    \cup {[kind |-> "range", lo |-> a, hi |-> b] : a, b \in 1..MaxIndex}
    \cup {[kind |-> "junk", lo |-> 0, hi |-> 0]}
token_text(t) ==
    IF t.kind = "bare" THEN digits_of(t.lo)
    ELSE IF t.kind = "range" THEN digits_of(t.lo) \o <<"-">> \o digits_of(t.hi)
    ELSE <<"x">>
RECURSIVE expr_text(_, _)
expr_text(toks, sep) ==
    IF toks = <<>> THEN <<>>
    ELSE IF Len(toks) = 1 THEN token_text(toks[1])
    ELSE token_text(toks[1]) \o <<sep>> \o expr_text(Tail(toks), sep)

\* sequences over S of length at most n
SeqsUpTo(S, n) == UNION {[1..k -> S] : k \in 0..n}

\* a history of n messages, each different from the others, the second
\* with an image
history_of(n) ==
    [i \in 1..n |->
        [ChatMessage(IF i % 2 = 1 THEN "user" ELSE "assistant", <<ToString(i)>>)
             EXCEPT !.images = IF i = 2 THEN <<"img">> ELSE <<>>]]

\* the agent the history belongs to, as its public history or as the
\* private history of "u1"; the other user's private history is there too
agent_of(hist, private) ==
    LET a == history_set(AgentNew(<<"b">>, <<"m">>, <<"p">>, <<"d">>),
                         TRUE, "u2", history_of(1))
    IN  IF private /\ hist = <<>> THEN a
        ELSE history_set(a, private, "u1", hist)

UtilInputs ==
    {UtilIn("indices", toks, sep, <<>>, FALSE, <<>>, 0) :
         toks \in SeqsUpTo(Tokens, MaxTokens), sep \in {",", "FW_COMMA"}}
    \cup {UtilIn("delete", <<>>, ",", history_of(n), p, idxs, 0) :
              n \in 0..MaxHistory, p \in BOOLEAN,
              idxs \in SeqsUpTo(0..MaxIndex, MaxIndices)}
    \cup {UtilIn("edit", <<>>, ",", history_of(n), p, <<>>, i) :
              n \in 0..MaxHistory, p \in BOOLEAN, i \in 0..MaxIndex}

UInit ==
    /\ DInit
    /\ raw = <<>> /\ rawAscii = <<>> /\ pnames = <<>> /\ parsed = NoParse
    /\ ppc = "input"
    /\ uin \in UtilInputs
    /\ uout = <<>>
    /\ LIdle

Applied(fn, out) ==
    /\ ppc = "input" /\ uin.fn = fn
    /\ ppc' = fn
    /\ uout' = out
    /\ UNCHANGED <<raw, rawAscii, pnames, parsed, uin, locks>>
    /\ UNCHANGED dvars

ResolveIndices == Applied("indices", parse_indices(expr_text(uin.toks, uin.sep)))
DeleteAt ==
    Applied("delete", delete_at(agent_of(uin.hist, uin.private), uin.private,
                                "u1", uin.idxs))
EditAt ==
    Applied("edit", edit_at(agent_of(uin.hist, uin.private), uin.private,
                            "u1", uin.idx, <<"e">>))

UNext == ResolveIndices \/ DeleteAt \/ EditAt

UtilSpec == UInit /\ [][UNext]_vars

(***************************************************************************)
(* Properties of the utilities.                                            *)
(***************************************************************************)
\* the elements of a sequence, and a sequence in strictly ascending order
elements(v) == {v[i] : i \in 1..Len(v)}
ascending(v) == \A i \in 1..(Len(v) - 1) : v[i] < v[i + 1]

\* the integers a token stands for
token_set(t) ==
    IF t.kind = "bare" THEN {t.lo}
    ELSE IF t.kind = "range" THEN t.lo..t.hi
    ELSE {}

\* C13: the index resolver returns exactly the union of the listed integers
\* and inclusive ranges, strictly ascending and without duplicates; a
\* reversed range contributes nothing, and an empty or unparseable
\* expression gives the empty list
C13_IndicesAreTheUnion ==
    ppc = "indices" =>
        /\ ascending(uout)
        /\ elements(uout) = UNION {token_set(uin.toks[i]) : i \in 1..Len(uin.toks)}

\* the expression "4-2,3-5" was resolved to [3,4,5]
C13_ReversedAndRange ==
    /\ ppc = "indices" /\ uout = <<3, 4, 5>>
    /\ uin.toks = <<[kind |-> "range", lo |-> 4, hi |-> 2],
                    [kind |-> "range", lo |-> 3, hi |-> 5]>>

\* the elements of h at the positions outside D, in their order
without(h, D) ==
    LET K == {i \in 1..Len(h) : i \notin D}
    IN  [j \in 1..Cardinality(K) |->
            h[CHOOSE i \in K : Cardinality({k \in K : k < i}) = j - 1]]

\* the positions of the history that the index list names
named == {i \in elements(uin.idxs) : 1 <= i /\ i <= Len(uin.hist)}

\* C14: delete_at removes exactly the elements at the distinct positions
\* named that are in range, returns those positions in ascending order and
\* leaves the other elements in their order; nothing else of the agent
\* changes
C14_DeleteAtExact ==
    ppc = "delete" =>
        /\ ascending(uout.deleted)
        /\ elements(uout.deleted) = named
        /\ history(uout.agent, uin.private, "u1") = without(uin.hist, named)
        /\ Len(history(uout.agent, uin.private, "u1"))
               = Len(uin.hist) - Cardinality(named)
        /\ history(uout.agent, ~uin.private, "u1")
               = history(agent_of(uin.hist, uin.private), ~uin.private, "u1")
        /\ history(uout.agent, TRUE, "u2") = history_of(1)

\* positions 2 and 4 of a history of four were deleted, given as [2,4]
C14_TwoAndFour ==
    /\ ppc = "delete" /\ uin.idxs = <<2, 4>> /\ Len(uin.hist) = 4
    /\ uout.deleted = <<2, 4>>
    /\ Len(history(uout.agent, uin.private, "u1")) = 2

\* C15: edit_at succeeds iff 1 <= index <= length; when it fails the
\* history is the same sequence as before; when it succeeds only the
\* content of the message at the index changes
C15_EditAtExact ==
    ppc = "edit" =>
        LET h == history(uout.agent, uin.private, "u1")
        IN  /\ uout.ok = (1 <= uin.idx /\ uin.idx <= Len(uin.hist))
            /\ ~uout.ok => h = uin.hist
            /\ uout.ok =>
                   /\ Len(h) = Len(uin.hist)
                   /\ h[uin.idx].content = <<"e">>
                   /\ \A i \in 1..Len(h) :
                          /\ h[i].role = uin.hist[i].role
                          /\ h[i].images = uin.hist[i].images
                          /\ i # uin.idx => h[i] = uin.hist[i]
            /\ history(uout.agent, ~uin.private, "u1")
                   = history(agent_of(uin.hist, uin.private), ~uin.private, "u1")
            /\ history(uout.agent, TRUE, "u2") = history_of(1)

\* the second message, the one with the image, was edited and kept its image
C15_EditedSecond ==
    /\ ppc = "edit" /\ uin.idx = 2 /\ uout.ok
    /\ history(uout.agent, uin.private, "u1")[2].images = <<"img">>

(***************************************************************************)
(* The specification of persona creation: create texts handled one after   *)
(* the other by on_msg and logic::handle_create, for the model lists       *)
(* Manager::fetch_models can have stored (sorted by models.sort()).        *)
(***************************************************************************)
CreateModelLists == {<<>>, << <<"m">> >>, << <<"b", "m">>, <<"m">> >>}

\* the registry before: empty, or the persona "b" as the text "##b" makes it
CreateRegistries ==
    {<<>>, handle_create(<<>>, <<>>, <<"b">>, <<>>, <<>>, <<>>)}

\* create texts: name, description, model and prompt; the model given by
\* name, by index and by a name no list has; texts with parts left out
CreateMessages ==
    {<<"#", "#", "x", "(", "d", ")", " ", "m", " ", "p">>,
     <<"#", "#", "x", "(", "d", ")", " ", "1", " ", "p">>,
     <<"#", "#", "x", "(", "d", ")", " ", "k", " ", "p", " ", " ", "p">>,
     <<"#", "#", "b", "(", "d", ")", " ", "m", " ", "p">>,
     <<"#", "#", "x", " ", "m">>,
     <<"#", "#", "B">>}

CInit ==
    /\ agents \in CreateRegistries
    /\ api_ok = TRUE
    /\ models \in CreateModelLists
    /\ generating = GeneratingDefault
    /\ pc = [h \in Handlers |-> "idle"]
    /\ cmd = [h \in Handlers |-> NoCommand]
    /\ loc = [h \in Handlers |-> NoLoc]
    /\ issued = 0
    /\ PIdle

CNext ==
    \/ \E text \in CreateMessages : Receive(1, "u1", text) /\ UNCHANGED pvars
    \/ Create(1) /\ UNCHANGED pvars

CreateSpec == CInit /\ [][CNext]_vars

\* the step of handle_create for handler h, for a name the registry has not
creates_new(h) ==
    /\ pc[h] = "create" /\ pc'[h] = "idle"
    /\ position(agents, loc[h].create.name) = 0

\* C16: a create text with a description, a model and a prompt for a name
\* that is not in the registry adds exactly one persona with that name,
\* description, model and prompt, no history and version 0, and leaves the
\* other personas as they are
C16_CreateAddsTyped ==
    [][\A h \in Handlers :
           (/\ creates_new(h)
            /\ loc[h].create.desc # <<>>
            /\ loc[h].create.model # <<>>
            /\ loc[h].create.prompt # <<>>)
               => agents' = Append(agents,
                                   [name |-> loc[h].create.name,
                                    description |-> loc[h].create.desc,
                                    model |-> loc[h].create.model,
                                    system_prompt |-> loc[h].create.prompt,
                                    public_history |-> <<>>,
                                    private_histories |-> <<>>,
                                    generation_id |-> 0])]_vars

\* the registered names that equal the name n without regard to letter case
same_name_ignoring_case(as, n) ==
    {i \in 1..Len(as) : to_lowercase(as[i].name) = to_lowercase(n)}

\* C17: a delete-persona command whose name equals a registered persona's
\* name in any letter case removes that persona when it is executed
C17_DeleteRemovesMatched ==
    [][\A h \in Handlers :
           (/\ pc[h] = "exec" /\ pc'[h] = "idle"
            /\ cmd[h].action = "Delete"
            /\ same_name_ignoring_case(agents, cmd[h].agent) # {})
               => \E i \in same_name_ignoring_case(agents, cmd[h].agent) :
                      agents' = RemoveAt(agents, i)]_vars

\* the step in which handler h returns with the reply r
returns_with(h, r) == pc[h] # "idle" /\ pc'[h] = "idle" /\ loc'[h].res = r

\* C18: the step in which a command ends with a validation error or a
\* not-found error changes no persona, no history, no version and no mark
\* of GeneratingState
C18_ErrorsChangeNothing ==
    [][\A h \in Handlers :
           (returns_with(h, "invalid") \/ returns_with(h, "notfound"))
               => agents' = agents /\ generating' = generating]_vars

\* the provider call of handler h ends in this step with the failure f
fails_with(h, f) ==
    pc[h] = "chat_call" /\ pc'[h] # "chat_call" /\ loc'[h].res = f

\* C19: the step in which the provider call of a request fails or its wait
\* of 300 s expires unmarks the request's key, changes no history (the
\* user message stored when the request started is not taken back) and
\* ends the handler, so that no assistant message is appended for the
\* request
C19_FailureUnmarksKeepsMessage ==
    [][\A h \in Handlers :
           (fails_with(h, "error") \/ fails_with(h, "timeout"))
               => /\ ~is_generating(generating', cmd[h].agent,
                                    cmd[h].private_reply, loc[h].uid)
                  /\ agents' = agents
                  /\ pc'[h] = "idle"]_vars

\* a request has timed out: its user message is the last of the history, no
\* key is marked
C19_TimedOut ==
    \E h \in Handlers :
        /\ pc[h] = "idle" /\ loc[h].res = "timeout"
        /\ generating.public = {}
        /\ \E i \in 1..Len(agents) :
               /\ agents[i].public_history # <<>>
               /\ agents[i].public_history[Len(agents[i].public_history)]
                      = ChatMessage("user", <<"h">>)

\* the kinds of reply a command can end with: the four of logic::execute
\* and the replies of chat::inner to a request that could not be made or
\* failed
Outcomes ==
    {"ok", "notfound", "invalid", "busy"}
    \cup {"no_api", "build_error", "error", "timeout"}

\* C20: every execution of a parsed command ends with a reply to the user:
\* the handler of a command returns with one of the outcomes
C20_OneOutcome ==
    [][\A h \in Handlers :
           (pc[h] \notin {"idle", "create"} /\ pc'[h] = "idle")
               => loc'[h].res \in Outcomes]_vars

\* a handler whose request has captured gen_id and has not yet passed the
\* version check
in_flight(h) == pc[h] \in {"chat_mark", "chat_call", "chat_verify"}

\* the write section of a Chat, Regenerate or Stop of handler g
message_or_stop(g) ==
    /\ pc[g] \in {"chat_write", "stop_write"}
    /\ pc'[g] # pc[g]

\* C21: a new message or a Stop on one key does not make the request in
\* flight on another key stale: its result is not discarded because of it
C21_OtherKeyNoDiscard ==
    [][\A g, h \in Handlers :
           (/\ g # h /\ in_flight(h) /\ message_or_stop(g)
            /\ gen_key(g) # gen_key(h)
            /\ ~version_stale(agents, cmd[h].agent, loc[h].gen_id))
               => ~version_stale(agents', cmd[h].agent, loc[h].gen_id)]_vars

(***************************************************************************)
(* The specification of GeneratingState: set_generating applied, one call  *)
(* after the other, to the keys of three personas and two users.           *)
(***************************************************************************)
GenAgents == {<<"b">>, <<"B">>, <<"x">>}

SetGenerating(agent, private, uid, on) ==
    /\ generating' = set_generating(generating, agent, private, uid, on)
    /\ UNCHANGED <<agents, api_ok, models, pc, cmd, loc, issued>>
    /\ UNCHANGED pvars

GNext ==
    \E agent \in GenAgents, private \in BOOLEAN, uid \in Users, on \in BOOLEAN :
        SetGenerating(agent, private, uid, on)

GenSpec == Init /\ [][GNext]_vars

\* the key of a call: persona, scope, and the user when the scope is private
key_of(agent, private, uid) == <<agent, private, IF private THEN uid ELSE "">>

\* every key's status in g, as a function of the arguments
status(g) ==
    [agent \in GenAgents, private \in BOOLEAN, uid \in Users |->
         is_generating(g, agent, private, uid)]

\* C22: marking or unmarking a key sets that key's status and changes the
\* status of no other key; unmarking twice is unmarking once, and
\* unmarking a key that is not marked changes no status
C22_KeysIndependent ==
    \A agent \in GenAgents, private \in BOOLEAN, uid \in Users :
        /\ \A on \in BOOLEAN :
               LET g == set_generating(generating, agent, private, uid, on)
               IN  /\ is_generating(g, agent, private, uid) = on
                   /\ \A a \in GenAgents, p \in BOOLEAN, u \in Users :
                          key_of(a, p, u) # key_of(agent, private, uid)
                              => is_generating(g, a, p, u)
                                     = is_generating(generating, a, p, u)
        /\ LET g1 == set_generating(generating, agent, private, uid, FALSE)
           IN  /\ set_generating(g1, agent, private, uid, FALSE) = g1
               /\ ~is_generating(generating, agent, private, uid)
                      => status(g1) = status(generating)

\* the public key of "b" and the private key of u1 with "b" are marked, the
\* private key of u2 with "b" was marked and is unmarked again
C22_MarkedAndUnmarked ==
    /\ generating.public = {<<"b">>}
    /\ <<"b">> \in DOMAIN generating.private
    /\ generating.private[<<"b">>] = {"u1"}
    /\ <<"x">> \in DOMAIN generating.private
    /\ generating.private[<<"x">>] = {}

\* the step in which the Stop of handler g returns, the persona being there
stop_returns(g) ==
    /\ pc[g] = "stop_write" /\ pc'[g] = "idle"
    /\ position(agents, cmd[g].agent) # 0

\* C23: the Stop of an existing persona increments its version by one,
\* changes no history and returns with its key unmarked, and no request on
\* that key is past its version check, so that the result of a request
\* outstanding on the key is dropped by the check
C23_StopCancels ==
    [][\A g \in Handlers :
           stop_returns(g) =>
               LET idx == position(agents, cmd[g].agent)
               IN  /\ agents' = [agents EXCEPT ![idx].generation_id = @ + 1]
                   /\ ~is_generating(generating', cmd[g].agent,
                                     cmd[g].private_reply, loc[g].uid)
                   /\ \A h \in Handlers \ {g} :
                          gen_key(h) = gen_key(g) => pc[h] # "chat_append"]_vars

(***************************************************************************)
(* The handlers under the assumption that a provider call returns or its   *)
(* wait of 300 s expires (tokio::time::timeout, lines 1356-1361): the      *)
(* return from the call is weakly fair for every handler.                  *)
(***************************************************************************)
Returns(h) == \E ans \in Answers : ChatReturn(h, ans) /\ UNCHANGED pvars

LiveSpec == Spec /\ \A h \in Handlers : WF_vars(Returns(h))

\* C24: every key that is marked is unmarked later on: no path of a chat
\* request leaves its key marked forever
C24_MarkedEventuallyUnmarked ==
    \A agent \in TypedNames, private \in BOOLEAN, uid \in Users :
        is_generating(generating, agent, private, uid)
            ~> ~is_generating(generating, agent, private, uid)

\* a request that could not be built has returned, and its key, marked at
\* the start of the request, is unmarked
C24_UnmarkedAfterBuildError ==
    \E h \in Handlers :
        /\ pc[h] = "idle" /\ loc[h].res = "build_error"
        /\ generating.public = {}
        /\ \A g \in Handlers : pc[g] = "idle"

\* the history operators of parse_suffix
HistoryActions ==
    {"ViewAll", "ViewAt", "Export", "EditAt", "ClearHistory", "DeleteAt"}

\* the text after the resolved name, and whether a "&" stands right before
\* the operator that starts it
after_name == trim(DropChars(rest_text, Len(parsed.got.val.agent)))
local_marker ==
    /\ Len(after_name) >= 2 /\ after_name[1] = "&"
    /\ after_name[2] \in {"/", "_", "'", "-"}

\* C25: a history operator is parsed with the scope Private iff the mode
\* prefix holds "&" or a "&" stands right before the operator, and with
\* the scope Public otherwise
C25_ScopeRule ==
    (is_command /\ parsed.got.val.action \in HistoryActions) =>
        /\ parsed.got.val.scope \in {"Private", "Public"}
        /\ (parsed.got.val.scope = "Private")
               = ((\E i \in 1..run_len : norm_text[i] = "&") \/ local_marker)

\* an export parsed as private by the local marker alone
C25_LocalMarkerOnly ==
    /\ is_command /\ run_len = 0
    /\ parsed.got.val.action = "Export" /\ parsed.got.val.scope = "Private"

(***************************************************************************)
(* The specification of the names that enter the registry: create texts    *)
(* handled by on_msg and logic::handle_create, and Copy and Rename         *)
(* commands handed to logic::execute, with names the check accepts and     *)
(* names it rejects.                                                       *)
(***************************************************************************)
\* names of 7 and of 8 characters, names with a reserved symbol, the empty
\* name, and a name with a full-width symbol (the check reads the code
\* points as they are typed)
LongestName == <<"a", "b", "c", "d", "e", "f", "g">>
NewNames ==
    {<<"y">>, LongestName, LongestName \o <<"h">>, <<"y", "&">>, <<"y", "-", "z">>,
     <<"*">>, <<>>, <<"y", "FW_AMP">>}

NameCreateTexts == {<<"#", "#">> \o n : n \in NewNames}

NameCommands ==
    {[CommandNew(<<"b">>, a) EXCEPT !.args = n] :
         a \in {"Copy", "Rename"}, n \in NewNames}

\* logic::execute called with the command c
Execute(h, c) ==
    /\ pc[h] = "idle"
    /\ issued < MaxCmds
    /\ issued' = issued + 1
    /\ pc' = [pc EXCEPT ![h] = first_section(c)]
    /\ cmd' = [cmd EXCEPT ![h] = c]
    /\ loc' = [loc EXCEPT ![h] = [NoLoc EXCEPT !.uid = "u1"]]
    /\ UNCHANGED <<agents, api_ok, models, generating>>

NInit ==
    /\ agents \in CreateRegistries
    /\ api_ok = TRUE
    /\ models = <<>>
    /\ generating = GeneratingDefault
    /\ pc = [h \in Handlers |-> "idle"]
    /\ cmd = [h \in Handlers |-> NoCommand]
    /\ loc = [h \in Handlers |-> NoLoc]
    /\ issued = 0
    /\ PIdle

NNext ==
    \/ \E text \in NameCreateTexts : Receive(1, "u1", text) /\ UNCHANGED pvars
    \/ \E c \in NameCommands : Execute(1, c) /\ UNCHANGED pvars
    \/ Create(1) /\ UNCHANGED pvars
    \/ Exec(1) /\ UNCHANGED pvars

NameSpec == NInit /\ [][NNext]_vars

\* the reserved symbols, and the rule for a persona name
NameSymbols ==
    {"&", "\"", "#", "~", "/", "-", "_", "'", "!", "@", "$", "%", ":", "*"}
valid_name(n) ==
    /\ n # <<>> /\ Len(n) <= 7
    /\ \A i \in 1..Len(n) : n[i] \notin NameSymbols

\* C26: every name of the registry is non-empty, has at most 7 characters
\* and none of the reserved symbols, and a Copy or Rename to a name that
\* breaks the rule changes nothing (a create text with such a name is no
\* create command)
C26_NamesValid ==
    [][/\ \A i \in 1..Len(agents') : valid_name(agents'[i].name)
       /\ \A h \in Handlers :
              (/\ pc[h] = "exec" /\ pc'[h] = "idle"
               /\ cmd[h].action \in {"Copy", "Rename"}
               /\ ~valid_name(cmd[h].args))
                  => agents' = agents /\ loc'[h].res = "invalid"
       /\ \A h \in Handlers :
              pc'[h] = "create" => valid_name(loc'[h].create.name)]_vars

\* a name of 7 characters is in the registry, "b" was renamed to "y", and
\* the last command, with a name that breaks the rule, was rejected
C26_Rejected ==
    /\ \E i \in 1..Len(agents) : agents[i].name = LongestName
    /\ \E i \in 1..Len(agents) : agents[i].name = <<"y">>
    /\ position(agents, <<"b">>) = 0
    /\ pc[1] = "idle" /\ loc[1].res = "invalid"

(***************************************************************************)
(* The specification of the clear commands: ClearHistory, ClearAllPublic   *)
(* and ClearEverything received one after the other from two users, from   *)
(* a registry of two personas that have public and private histories.      *)
(***************************************************************************)
\* a persona after chats in the public scope and in the private scopes of
\* the users us
chatted(name, us) ==
    [AgentNew(name, <<"m">>, <<"p">>, <<"d">>)
         EXCEPT !.public_history = history_of(2),
                !.private_histories = [u \in us |-> history_of(IF u = "u1" THEN 1 ELSE 3)],
                !.generation_id = 1 + Cardinality(us)]

ClearRegistries ==
    {<<chatted(<<"b">>, Users), chatted(<<"x">>, Users)>>,
     <<chatted(<<"b">>, {"u2"}), chatted(<<"x">>, {"u1"})>>}

ClearMessages ==
    {<<"b", "-", "*">>, <<"&", "b", "-", "*">>, <<"b", "&", "-", "*">>,
     <<"x", "-", "*">>, <<"-", "*">>, <<"-", "*", "!">>}

ClInit ==
    /\ agents \in ClearRegistries
    /\ api_ok = TRUE
    /\ models = <<>>
    /\ generating = GeneratingDefault
    /\ pc = [h \in Handlers |-> "idle"]
    /\ cmd = [h \in Handlers |-> NoCommand]
    /\ loc = [h \in Handlers |-> NoLoc]
    /\ issued = 0
    /\ PIdle

ClNext ==
    \/ \E u \in Users, text \in ClearMessages :
           Receive(1, u, text) /\ UNCHANGED pvars
    \/ ClearUnmark(1) /\ UNCHANGED pvars
    \/ ClearWrite(1) /\ UNCHANGED pvars

ClearSpec == ClInit /\ [][ClNext]_vars

\* the fields of a persona that no clear changes
fields_of(a) ==
    <<a.name, a.model, a.system_prompt, a.description>>

\* every private history of persona i is in the step what it was, but the
\* one of the users in us, which is empty
private_cleared(i, us) ==
    \A u \in Users :
        history(agents'[i], TRUE, u)
            = IF u \in us THEN <<>> ELSE history(agents[i], TRUE, u)

\* the public history of persona i is empty after the step if c, and what
\* it was otherwise
public_cleared(i, c) ==
    agents'[i].public_history = IF c THEN <<>> ELSE agents[i].public_history

\* C27: a clear removes no persona and changes no name, model, prompt or
\* description; ClearHistory empties the addressed history of the named
\* persona, public or the sender's private one, and no other history;
\* ClearAllPublic empties every public history and no private one
C27_ClearsOnlyTarget ==
    [][\A h \in Handlers :
           (pc[h] = "clear_write" /\ pc'[h] = "idle") =>
               /\ Len(agents') = Len(agents)
               /\ \A i \in 1..Len(agents) : fields_of(agents'[i]) = fields_of(agents[i])
               /\ cmd[h].action = "ClearHistory" =>
                      \A i \in 1..Len(agents) :
                          LET target == agents[i].name = cmd[h].agent
                          IN  /\ public_cleared(i, target /\ cmd[h].scope = "Public")
                              /\ private_cleared(i, IF target /\ cmd[h].scope = "Private"
                                                    THEN {loc[h].uid} ELSE {})
               /\ cmd[h].action = "ClearAllPublic" =>
                      \A i \in 1..Len(agents) :
                          public_cleared(i, TRUE) /\ private_cleared(i, {})]_vars

\* the public history of "b" and the private history of u1 with "b" were
\* cleared; the private history of u2 with "b" and the histories of "x" are
\* as they were
C27_ClearedTwo ==
    /\ agents[1].public_history = <<>>
    /\ "u1" \in DOMAIN agents[1].private_histories
    /\ agents[1].private_histories["u1"] = <<>>
    /\ agents[1].private_histories["u2"] = history_of(3)
    /\ agents[2] = chatted(<<"x">>, Users)

\* what on_msg did with the text, and the results of the four entry points
routed == parsed.got.val
in_names(n) == \E i \in 1..Len(pnames) : pnames[i] = n

\* C28: on_msg handles a text by the first of global command, create,
\* delete-persona and persona command that matches, and by that one only;
\* a create does not need its name in the registry, a persona command is
\* one of a registered name
C28_DispatchOrder ==
    ppc = "route" =>
        LET g == parse_global(raw)
            c == parse_create(raw)
            d == parse_delete_agent(raw, pnames)
            a == parse_agent_cmd(raw, pnames)
        IN  IF g.kind = "Some"
            THEN routed.cmd = g.val /\ routed.start \notin {"create", "none", "panic"}
                 /\ routed.create = NoCreate
            ELSE IF c.kind = "Panic" THEN routed.start = "panic"
            ELSE IF c.kind = "Some"
            THEN routed.start = "create" /\ routed.create = c.val
                 /\ routed.cmd = NoCommand
            ELSE IF d.kind = "Some"
            THEN routed.cmd = CommandNew(d.val, "Delete") /\ routed.start = "exec"
                 /\ routed.create = NoCreate
            ELSE IF a.kind = "Some"
            THEN routed.cmd = a.val /\ in_names(a.val.agent)
                 /\ routed.start \notin {"create", "none", "panic"}
                 /\ routed.create = NoCreate
            ELSE routed.start = "none"

\* the text "oai" was handled as the global Help though it is a chat with
\* the registered persona "o" as well
C28_GlobalBeforePersona ==
    /\ ppc = "route" /\ routed.cmd.action = "Help"
    /\ parse_agent_cmd(raw, pnames).kind = "Some"

\* C29: the index resolver returns 1-based indices only: no result holds 0
C29_IndicesOneBased ==
    ppc = "indices" => \A i \in 1..Len(uout) : uout[i] >= 1

-----------------------------------------------------------------------------
\* Lock discipline: the guard sections of the handlers, as sequences of steps.
\* A step takes a guard (<<"acquire", lock, mode>>), drops it
\* (<<"release", lock, mode>>), awaits an external call
\* (<<"await", kind>>) or hands a text to the runtime without awaiting
\* (<<"send">>, reply_text's event.reply).

\* chat::inner up to the provider call: busy check (1184-1190), snapshot
\* (1192-1209), reaction (1211-1222), append of the user message
\* (1244-1255), mark (1257-1260)
chat_head ==
    << <<"acquire", "generating", "read">>, <<"release", "generating", "read">>,
       <<"acquire", "config", "read">>, <<"release", "config", "read">>,
       <<"await", "transport">>,
       <<"acquire", "config", "write">>, <<"release", "config", "write">>,
       <<"acquire", "generating", "write">>,
       <<"release", "generating", "write">> >>

\* chat::inner on a busy key: the refusal is sent inside the read block
chat_busy ==
    << <<"acquire", "generating", "read">>, <<"send">>,
       <<"release", "generating", "read">> >>

\* chat::inner when the request cannot be built: the guard lives to the return
chat_build_error ==
    chat_head \o
    << <<"acquire", "generating", "write">>, <<"send">>,
       <<"release", "generating", "write">> >>

\* chat::inner on a timeout or a provider error
chat_failed ==
    chat_head \o
    << <<"await", "provider">>,
       <<"acquire", "generating", "write">>,
       <<"release", "generating", "write">>, <<"send">> >>

\* chat::inner when the version has moved on: the return drops the guard
chat_stale ==
    chat_head \o
    << <<"await", "provider">>,
       <<"acquire", "generating", "write">>,
       <<"release", "generating", "write">>,
       <<"acquire", "config", "read">>, <<"release", "config", "read">> >>

\* chat::inner with an answer: unmark, version check, index, append, reply
chat_answered ==
    chat_stale \o
    << <<"acquire", "config", "read">>, <<"release", "config", "read">>,
       <<"acquire", "config", "write">>, <<"release", "config", "write">>,
       <<"await", "renderer">>, <<"send">> >>

\* Action::Stop, and the clear arms of the same shape
stop_arm ==
    << <<"acquire", "generating", "write">>,
       <<"release", "generating", "write">>,
       <<"acquire", "config", "write">>, <<"send">>,
       <<"release", "config", "write">> >>

\* handle_create, and the arms that update one persona (Copy, Rename, Set*,
\* Delete, EditAt, DeleteAt): one write guard, dropped at the end of the arm
update_arm ==
    << <<"acquire", "config", "write">>, <<"send">>,
       <<"release", "config", "write">> >>

\* Action::AutoFillDescriptions, one persona
auto_fill ==
    << <<"acquire", "config", "read">>, <<"release", "config", "read">>,
       <<"await", "provider">>,
       <<"acquire", "config", "write">>, <<"release", "config", "write">>,
       <<"await", "timer">>, <<"send">> >>

\* on_msg with an API configuration, then Manager::fetch_models
api_config ==
    << <<"acquire", "config", "write">>, <<"release", "config", "write">>,
       <<"send">>,
       <<"acquire", "config", "read">>, <<"release", "config", "read">>,
       <<"await", "provider">>,
       <<"acquire", "config", "write">>, <<"release", "config", "write">>,
       <<"send">> >>

\* Action::ViewAll: the read guard lives across the rendered reply
view_all ==
    << <<"acquire", "config", "read">>, <<"await", "renderer">>, <<"send">>,
       <<"release", "config", "read">> >>

\* Action::ListModels with a model list: the first read guard is shadowed,
\* not dropped, and lives with the second one to the end of the arm
list_models ==
    << <<"acquire", "config", "read">>, <<"acquire", "config", "read">>,
       <<"await", "renderer">>, <<"send">>,
       <<"release", "config", "read">>, <<"release", "config", "read">> >>

Paths ==
    {"chat_busy", "chat_build_error", "chat_failed", "chat_stale",
     "chat_answered", "stop_arm", "update_arm", "auto_fill", "api_config",
     "view_all", "list_models"}

\* as Path, with the write guards of auto-fill taken
\* before the provider call and dropped after it
Path_guard_over_call(p) ==
    CASE p = "chat_busy" -> chat_busy
      [] p = "chat_build_error" -> chat_build_error
      [] p = "chat_failed" -> chat_failed
      [] p = "chat_stale" -> chat_stale
      [] p = "chat_answered" -> chat_answered
      [] p = "stop_arm" -> stop_arm
      [] p = "update_arm" -> update_arm
      [] p = "auto_fill" ->
            << <<"acquire", "config", "write">>, <<"await", "provider">>,
               <<"release", "config", "write">>,
               <<"await", "timer">>, <<"send">> >>
      [] p = "api_config" -> api_config
      [] p = "list_models" -> list_models
      [] OTHER -> view_all

\* the steps of one path
Path(p) ==
    CASE p = "chat_busy" -> chat_busy
      [] p = "chat_build_error" -> chat_build_error
      [] p = "chat_failed" -> chat_failed
      [] p = "chat_stale" -> chat_stale
      [] p = "chat_answered" -> chat_answered
      [] p = "stop_arm" -> stop_arm
      [] p = "update_arm" -> update_arm
      [] p = "auto_fill" -> auto_fill
      [] p = "api_config" -> api_config
      [] p = "list_models" -> list_models
      [] OTHER -> view_all

uvars == <<raw, rawAscii, pnames, parsed, ppc, uin, uout>>

\* the step handler h is at; <<"end">> past the last one
step(h) ==
    IF locks.path[h] # "-" /\ locks.at[h] <= Len(Path(locks.path[h]))
    THEN Path(locks.path[h])[locks.at[h]]
    ELSE <<"end">>

Moved(h) == [locks EXCEPT !.at[h] = @ + 1]

\* a message arrives and its task starts on path p; the handler is free
\* when its last task has run past its last step
Begin(h, p) ==
    /\ step(h)[1] = "end"
    /\ locks' = [locks EXCEPT !.path[h] = p, !.at[h] = 1]
    /\ UNCHANGED <<dvars, uvars>>

\* h waits in the queue of a lock
queued(h, l) == \E i \in 1..Len(locks.q[l]) : locks.q[l][i] = h

\* RwLock::read / RwLock::write is called: the task joins the queue of the
\* lock
Request(h) ==
    /\ step(h)[1] = "acquire"
    /\ ~queued(h, step(h)[2])
    /\ locks' = [locks EXCEPT !.q[step(h)[2]] = Append(@, h)]
    /\ UNCHANGED <<dvars, uvars>>

\* the guard is granted to the first task of the queue: a read guard needs no
\* writer, a write guard needs no holder at all
Acquire(h) ==
    /\ step(h)[1] = "acquire"
    /\ \E r \in {step(h)} :
        /\ locks.q[r[2]] # <<>>
        /\ Head(locks.q[r[2]]) = h
        /\ locks.w[r[2]] = 0
        /\ r[3] = "write" => \A g \in Handlers : locks.r[r[2]][g] = 0
        /\ locks' =
            IF r[3] = "write"
            THEN [Moved(h) EXCEPT !.w[r[2]] = h, !.q[r[2]] = Tail(@)]
            ELSE [Moved(h) EXCEPT !.r[r[2]][h] = @ + 1, !.q[r[2]] = Tail(@)]
    /\ UNCHANGED <<dvars, uvars>>

\* the guard goes out of scope (or is dropped)
Release(h) ==
    /\ step(h)[1] = "release"
    /\ \E r \in {step(h)} :
        locks' =
            IF r[3] = "write"
            THEN [Moved(h) EXCEPT !.w[r[2]] = 0]
            ELSE [Moved(h) EXCEPT !.r[r[2]][h] = @ - 1]
    /\ UNCHANGED <<dvars, uvars>>

\* the task awaits an external call: the call is pending
Call(h) ==
    /\ step(h)[1] = "await"
    /\ locks.pending[h] = "-"
    /\ locks' = [locks EXCEPT !.pending[h] = step(h)[2]]
    /\ UNCHANGED <<dvars, uvars>>

\* the awaited call completes
Resume(h) ==
    /\ locks.pending[h] # "-"
    /\ locks' = [Moved(h) EXCEPT !.pending[h] = "-"]
    /\ UNCHANGED <<dvars, uvars>>

\* reply_text: event.reply is not awaited
Send(h) ==
    /\ step(h)[1] = "send"
    /\ locks' = Moved(h)
    /\ UNCHANGED <<dvars, uvars>>

LNext ==
    \E h \in Handlers :
        \/ \E p \in Paths : Begin(h, p)
        \/ Request(h)
        \/ Acquire(h)
        \/ Release(h)
        \/ Call(h)
        \/ Resume(h)
        \/ Send(h)

LockSpec == Init /\ [][LNext]_vars

\* C30: no handler holds the write guard of the registry or of the
\* generation tracker while a provider, renderer or transport call it
\* awaits is pending
C30_NoWriteGuardOverCall ==
    \A h \in Handlers :
        locks.pending[h] \in {"provider", "renderer", "transport"} =>
            /\ locks.w["config"] # h
            /\ locks.w["generating"] # h

\* a chat request has stored its message and waits for the provider while
\* another handler updates the registry
C30_UpdateDuringCall ==
    \E h, g \in Handlers :
        /\ h # g
        /\ locks.path[h] = "chat_answered"
        /\ locks.pending[h] = "provider"
        /\ locks.w["config"] = g

\* one step of the task of handler h: the runtime polls every ready task,
\* and every external call returns (the provider call within its timeout)
Advance(h) ==
    Request(h) \/ Acquire(h) \/ Release(h) \/ Call(h) \/ Resume(h) \/ Send(h)

LockLiveSpec == LockSpec /\ \A h \in Handlers : WF_vars(Advance(h))

\* C31: every attempt to take the guard of the registry or of the generation
\* tracker eventually succeeds: a handler waiting in the queue of a lock
\* eventually leaves it with the guard
C31_AcquireSucceeds ==
    \A h \in Handlers :
        \A l \in {"config", "generating"} :
            queued(h, l) ~> ~queued(h, l)

-----------------------------------------------------------------------------
\* handler h stores the history of its chat request (lines 1244-1255)
writes_start(h) == pc[h] = "chat_write" /\ pc'[h] = "chat_mark"

\* C32: the history a chat request stores is the history as it is at the
\* moment of the write with the request's own change: nothing that was done
\* to the history after the request took its snapshot is undone
C32_NoLostUpdate ==
    [][\A h \in Handlers :
           writes_start(h) =>
               LET idx == position(agents, cmd[h].agent)
               IN  history(agents'[idx], cmd[h].private_reply, loc[h].uid)
                     = request_history(agents[idx], cmd[h], loc[h].uid)]_vars

-----------------------------------------------------------------------------
\* the provider call of handler h is pending and nothing has cancelled it:
\* the persona's version is the one the request captured
live_request(h) ==
    /\ pc[h] = "chat_call"
    /\ position(agents, cmd[h].agent) # 0
    /\ ~version_stale(agents, cmd[h].agent, loc[h].gen_id)

\* handlers g and h work on the same generation key
same_key(g, h) ==
    /\ cmd[g].agent = cmd[h].agent
    /\ cmd[g].private_reply = cmd[h].private_reply
    /\ cmd[h].private_reply => loc[g].uid = loc[h].uid

\* the request of handler g ends (completion, error, timeout or build
\* error) after it was cancelled
stale_return(g) ==
    /\ pc[g] = "chat_call"
    /\ pc'[g] # "chat_call"
    /\ version_stale(agents, cmd[g].agent, loc[g].gen_id)

\* C33: the end of a cancelled request does not unmark the key of a request
\* that is in flight for the same key and is not cancelled
C33_StaleReturnKeepsMark ==
    [][\A g, h \in Handlers :
           (g # h /\ stale_return(g) /\ live_request(h) /\ same_key(g, h)
              /\ is_generating(generating, cmd[h].agent, cmd[h].private_reply,
                               loc[h].uid))
               => is_generating(generating', cmd[h].agent,
                                cmd[h].private_reply, loc[h].uid)]_vars

-----------------------------------------------------------------------------
\* Delete and re-create under a request in flight.  The registry holds
\* persona b, created with a description of its own; user u1 has sent `b h`,
\* the message is stored (version 1), the key is marked and the provider
\* call is pending.  The messages from here on are delete-persona, create,
\* stop and clear: the one chat request is that of handler 1.
Original ==
    [AgentNew(<<"b">>, <<"m">>, <<"p">>, <<"d">>)
         EXCEPT !.public_history = <<ChatMessage("user", <<"h">>)>>,
                !.generation_id = 1]

RecreateMessages ==
    {<<"-", "#", "b">>, <<"#", "#", "b">>, <<"b", "!">>, <<"b", "-", "*">>}

RInit ==
    /\ agents = <<Original>>
    /\ api_ok = TRUE
    /\ models = <<>>
    /\ generating = set_generating(GeneratingDefault, <<"b">>, FALSE, "u1", TRUE)
    /\ pc = [h \in Handlers |-> IF h = 1 THEN "chat_call" ELSE "idle"]
    /\ cmd = [h \in Handlers |->
                 IF h = 1
                 THEN parse_agent_cmd(<<"b", " ", "h">>, << <<"b">> >>).val
                 ELSE NoCommand]
    /\ loc = [h \in Handlers |->
                 IF h = 1
                 THEN [NoLoc EXCEPT !.uid = "u1", !.gen_id = 1,
                                    !.hist = <<ChatMessage("user", <<"h">>)>>]
                 ELSE NoLoc]
    /\ issued = 0
    /\ PIdle

RNext ==
    \/ \E h \in Handlers, text \in RecreateMessages :
           Receive(h, "u1", text) /\ UNCHANGED pvars
    \/ \E h \in Handlers : Create(h) /\ UNCHANGED pvars
    \/ \E h \in Handlers : Exec(h) /\ UNCHANGED pvars
    \/ \E h \in Handlers : StopUnmark(h) /\ UNCHANGED pvars
    \/ \E h \in Handlers : StopWrite(h) /\ UNCHANGED pvars
    \/ \E h \in Handlers : ClearUnmark(h) /\ UNCHANGED pvars
    \/ \E h \in Handlers : ClearWrite(h) /\ UNCHANGED pvars
    \/ \E ans \in Answers : ChatReturn(1, ans) /\ UNCHANGED pvars
    \/ ChatVerify(1) /\ UNCHANGED pvars
    \/ ChatAppend(1) /\ UNCHANGED pvars

RecreateSpec == RInit /\ [][RNext]_vars

\* the persona named b now is one that create made after a delete: it has
\* the description of a new persona, which no message here gives to the
\* original
recreated ==
    /\ position(agents, <<"b">>) # 0
    /\ agents[position(agents, <<"b">>)].description = NewAgentDesc

\* C34: the result of a request started against a persona that was deleted
\* in the meantime is not appended to the history of a persona re-created
\* under the same name
C34_NoAppendToRecreated ==
    [][(pc[1] = "chat_append" /\ pc'[1] # "chat_append" /\ recreated)
           => agents' = agents]_vars

-----------------------------------------------------------------------------
\* handler h runs the unmark section of Action::ClearHistory
clear_unmarks(h) ==
    /\ pc[h] = "clear_unmark"
    /\ pc'[h] = "clear_write"
    /\ cmd[h].action = "ClearHistory"

\* C35: ClearHistory unmarks the generation key of the scope whose history
\* it clears, and leaves the key of the other scope as it is
C35_ClearUnmarksItsScope ==
    [][\A h \in Handlers :
           clear_unmarks(h) =>
               LET priv == cmd[h].scope = "Private"
               IN  /\ ~is_generating(generating', cmd[h].agent, priv, loc[h].uid)
                   /\ is_generating(generating', cmd[h].agent, ~priv, loc[h].uid)
                        <=> is_generating(generating, cmd[h].agent, ~priv,
                                          loc[h].uid)]_vars

-----------------------------------------------------------------------------
\* Configuration commands on a registry of personas that have conversations:
\* create on an existing name (with and without fields), copy (to a new name
\* and to a taken one) and the three set commands, against an empty model
\* list and a list of one model; and Action::Rename (to a new name and to a
\* taken one), handed to execute as a command since no text parses to it.
ConfigMessages ==
    {<<"#", "#", "b">>,
     <<"#", "#", "b", "(", "e", ")", " ", "m", " ", "q">>,
     <<"b", "~", "#", "c">>, <<"b", "~", "#", "x">>,
     <<"b", ":", "e">>, <<"b", "%", "m">>, <<"x", "$", "q">>}

ConfigCommands ==
    {[CommandNew(<<"x">>, "Rename") EXCEPT !.args = n] : n \in {<<"y">>, <<"b">>}}

ConfigInit ==
    /\ agents \in ClearRegistries
    /\ api_ok = TRUE
    /\ models \in {<<>>, << <<"m">> >>}
    /\ generating = GeneratingDefault
    /\ pc = [h \in Handlers |-> "idle"]
    /\ cmd = [h \in Handlers |-> NoCommand]
    /\ loc = [h \in Handlers |-> NoLoc]
    /\ issued = 0
    /\ PIdle

ConfigNext ==
    \/ \E text \in ConfigMessages : Receive(1, "u1", text) /\ UNCHANGED pvars
    \/ \E c \in ConfigCommands : Execute(1, c) /\ UNCHANGED pvars
    \/ Create(1) /\ UNCHANGED pvars
    \/ Exec(1) /\ UNCHANGED pvars

ConfigSpec == ConfigInit /\ [][ConfigNext]_vars

\* the conversations of a persona and its version
conversations(a) == <<a.public_history, a.private_histories, a.generation_id>>

\* handler h runs create on an existing name
updates(h) ==
    /\ pc[h] = "create" /\ pc'[h] = "idle"
    /\ position(agents, loc[h].create.name) # 0

\* handler h runs one of the configuration arms of execute
configures(h, actions) ==
    /\ pc[h] = "exec" /\ pc'[h] = "idle"
    /\ cmd[h].action \in actions

\* C36: configuration commands leave the conversations and the version of
\* every existing persona as they are; create on an existing name adds no
\* persona; a copy adds one persona with the source's model, prompt and
\* description, no history and version 0
C36_ConfigKeepsConversations ==
    [][\A h \in Handlers :
          /\ (updates(h) \/ configures(h, {"SetModel", "SetPrompt", "SetDesc",
                                           "Copy", "Rename"}))
                => /\ Len(agents') >= Len(agents)
                   /\ \A i \in 1..Len(agents) :
                          conversations(agents'[i]) = conversations(agents[i])
          /\ (updates(h) \/ configures(h, {"SetModel", "SetPrompt", "SetDesc",
                                           "Rename"}))
                => Len(agents') = Len(agents)
          /\ (configures(h, {"Copy"}) /\ loc'[h].res = "ok")
                => /\ Len(agents') = Len(agents) + 1
                   /\ LET src == agents[position(agents, cmd[h].agent)]
                          new == agents'[Len(agents')]
                      IN  /\ new.name = cmd[h].args
                          /\ new.model = src.model
                          /\ new.system_prompt = src.system_prompt
                          /\ new.description = src.description
                          /\ conversations(new) = <<<<>>, <<>>, 0>>
          /\ (configures(h, {"Copy"}) /\ loc'[h].res # "ok")
                => Len(agents') = Len(agents)]_vars

\* persona b, which has conversations, was copied to c after its
\* description was set
C36_CopiedAfterSet ==
    /\ Len(agents) = 3
    /\ agents[3].name = <<"c">>
    /\ agents[3].description = <<"e">>
    /\ agents[1].public_history # <<>>
    /\ loc[1].res = "ok"

-----------------------------------------------------------------------------
\* Create, then address.  A create text `##N` is parsed; when parse_create
\* accepts it, N is registered and a text N followed by a suffix is given to
\* parse_agent_cmd with N in the list of names.
AddressNames ==
    {<<"x">>, <<"B">>, <<"ZH">>, <<"b", "x">>, <<"1">>, <<"=">>,
     <<"FW_HASH">>, <<"FW_TILDE">>, <<"x", "FW_MINUS">>, <<"FW_BANG", "x">>,
     <<"x", "&">>}

AddressSuffixes ==
    Suffixes \cup {<<>>, <<"/", "$">>, <<":", "e">>, <<"&", "-", "*">>}

AInit ==
    /\ DInit
    /\ pnames = <<>>
    /\ raw \in {<<"#", "#">> \o n : n \in AddressNames}
    /\ rawAscii = normalize(raw)
    /\ parsed = NoParse
    /\ ppc = "input"
    /\ UIdle
    /\ LIdle

\* parse_agent_cmd on the accepted name and a suffix; the name is the only
\* registered one
Address(sfx) ==
    /\ ppc = "create"
    /\ parsed.got.kind = "Some"
    /\ pnames' = <<parsed.got.val.name>>
    /\ raw' = parsed.got.val.name \o sfx
    /\ rawAscii' = normalize(raw')
    /\ parsed' = [got |-> parse_agent_cmd(raw', pnames'),
                  ascii |-> parse_agent_cmd(rawAscii', pnames')]
    /\ ppc' = "agent"
    /\ UNCHANGED <<uin, uout, locks>>
    /\ UNCHANGED dvars

ANext == ParseCreate \/ \E sfx \in AddressSuffixes : Address(sfx)

AddressSpec == AInit /\ [][ANext]_vars

\* C37: a name that create has accepted is addressable: the persona-command
\* parser resolves the name followed by any suffix to that persona
C37_Addressable ==
    ppc = "agent" =>
        /\ parsed.got.kind = "Some"
        /\ parsed.got.val.agent = pnames[1]

-----------------------------------------------------------------------------
\* handler h runs a section of a command that is none of the given ones
step_but(h, actions) ==
    /\ pc[h] # "idle"
    /\ pc'[h] # pc[h]
    /\ cmd[h].action \notin actions

\* the private history user u has with the persona of a name (none: empty)
private_of(as, n, u) ==
    IF position(as, n) = 0 THEN <<>> ELSE history(as[position(as, n)], TRUE, u)

\* the step changes no private history and no private key of a user other
\* than the one handler h works for
others_untouched(h) ==
    \A u \in Users \ {loc[h].uid} :
        \A n \in TypedNames :
            /\ private_of(agents', n, u) = private_of(agents, n, u)
            /\ is_generating(generating', n, TRUE, u)
                   <=> is_generating(generating, n, TRUE, u)

\* C38 as stated: a command of one user changes no private history of
\* another user and neither marks nor unmarks a private key of another user,
\* the global ClearEverything alone excepted
C38_OnlyClearEverything ==
    [][\A h \in Handlers :
           step_but(h, {"ClearEverything"}) => others_untouched(h)]_vars

\* C38, amended: the same, with the deletion of a persona, which discards
\* the persona with every user's private history, excepted as well
C38_PrivateIsolation ==
    [][\A h \in Handlers :
           step_but(h, {"ClearEverything", "Delete"}) => others_untouched(h)]_vars

\* two users have a private conversation with the same persona, and one of
\* them has a request in flight
C38_TwoPrivateHistories ==
    /\ Len(agents) = 1
    /\ history(agents[1], TRUE, "u1") # <<>>
    /\ history(agents[1], TRUE, "u2") # <<>>
    /\ \E u \in Users : is_generating(generating, agents[1].name, TRUE, u)

-----------------------------------------------------------------------------
\* Regenerate on histories of every shape of tail: empty, ending with a user
\* message, with an assistant message, with two user messages, and an
\* assistant message alone; one handler, so that the history a request reads
\* is the history it rewrites.
RegenHistories ==
    {history_of(0), history_of(1), history_of(2), history_of(3),
     <<ChatMessage("assistant", <<"a">>)>>,
     <<ChatMessage("user", <<"1">>), ChatMessage("user", <<"2">>)>>}

RegenRegistries ==
    {<<[AgentNew(<<"b">>, <<"m">>, <<"p">>, <<"d">>)
           EXCEPT !.public_history = pub,
                  !.private_histories = ("u1" :> history_of(2)),
                  !.generation_id = g]>> :
        pub \in RegenHistories, g \in {0, 2}}

\* regenerate without and with an override prompt, in both scopes, and a
\* chat message
RegenMessages ==
    {<<"b", "~">>, <<"b", "~", " ", "q">>, <<"&", "b", "~">>,
     <<"&", "b", "~", " ", "q">>, <<"b", " ", "h">>}

RegenInit ==
    /\ agents \in RegenRegistries
    /\ api_ok = TRUE
    /\ models = <<>>
    /\ generating = GeneratingDefault
    /\ pc = [h \in Handlers |-> "idle"]
    /\ cmd = [h \in Handlers |-> NoCommand]
    /\ loc = [h \in Handlers |-> NoLoc]
    /\ issued = 0
    /\ PIdle

RegenNext ==
    \/ \E u \in Users, text \in RegenMessages :
           Receive(1, u, text) /\ UNCHANGED pvars
    \/ ChatCheck(1) /\ UNCHANGED pvars
    \/ ChatSnap(1) /\ UNCHANGED pvars
    \/ ChatWrite(1) /\ UNCHANGED pvars
    \/ ChatMark(1) /\ UNCHANGED pvars
    \/ \E ans \in Answers : ChatReturn(1, ans) /\ UNCHANGED pvars
    \/ ChatVerify(1) /\ UNCHANGED pvars
    \/ ChatAppend(1) /\ UNCHANGED pvars

RegenSpec == RegenInit /\ [][RegenNext]_vars

\* 1 when the history ends with a message of the role, else 0
ends_with(hist, role) ==
    IF hist # <<>> /\ hist[Len(hist)].role = role THEN 1 ELSE 0

\* how many messages Regenerate takes off the end of a history: a trailing
\* assistant message, and with an override prompt the user message that
\* then ends the history
taken_off(hist, override) ==
    LET a == ends_with(hist, "assistant")
    IN  IF override = <<>> THEN a
        ELSE a + ends_with(SubSeq(hist, 1, Len(hist) - a), "user")

\* C39: Regenerate rewrites only the tail of its history when the request
\* starts: it takes off a trailing assistant message, with an override
\* prompt also the user message before it, and then appends one user
\* message with the override text; the messages before keep their content
\* and order, every other history is left alone and the version of the
\* persona grows by one
C39_RegenerateRewritesTail ==
    [][\A h \in Handlers :
           (writes_start(h) /\ cmd[h].action = "Regenerate") =>
               LET idx == position(agents, cmd[h].agent)
                   old == history(agents[idx], cmd[h].private_reply, loc[h].uid)
                   new == history(agents'[idx], cmd[h].private_reply, loc[h].uid)
                   override == chat_prompt(cmd[h])
                   kept == SubSeq(old, 1, Len(old) - taken_off(old, override))
               IN  /\ new = IF override = <<>> THEN kept
                            ELSE Append(kept, ChatMessage("user", override))
                   /\ agents'[idx].generation_id = agents[idx].generation_id + 1
                   /\ history(agents'[idx], ~cmd[h].private_reply, loc[h].uid)
                        = history(agents[idx], ~cmd[h].private_reply, loc[h].uid)]_vars

\* a regeneration with an override prompt has replaced the last exchange of
\* a history of three messages: the first message stands, the new user
\* message follows it
C39_ReplacedExchange ==
    /\ pc[1] = "chat_mark"
    /\ cmd[1].action = "Regenerate"
    /\ agents[1].public_history
         = <<ChatMessage("user", <<"1">>), ChatMessage("user", <<"q">>)>>
    /\ agents[1].generation_id = 1

=============================================================================
